---- MODULE Spec2Model ----
(***************************************************************************)
(* Verification model of the ShipItAI review core (package review):        *)
(*   - Line Mapper      ParseDiffLines / IsValidCommentLine                *)
(*   - Line Annotator   AnnotateDiffWithLineNumbers                        *)
(*   - comment filter   FilterValidComments                                *)
(*   - Diff Splitter    SplitDiffByFile                                    *)
(*   - Chunk Packer     ChunkDiff / ChunkToDiff                            *)
(*   - Result Merger    MergeChunkResponses / mergeApproval                *)
(*   - Chunk Dispatcher retryWithBackoff / reviewChunkWithContext          *)
(*   - fan-out          Reviewer.reviewChunked                             *)
(*                                                                         *)
(* A diff is the sequence of lines strings.Split(diff, "\n") yields.  A    *)
(* line is a record [kind, path, start]; the kind stands for the set of    *)
(* prefix tests of the source the line's text passes:                      *)
(*   Git      "diff --git a/<path> b/<path>"                               *)
(*   PlusB    "+++ b/<path>"                                               *)
(*   DevNull  "+++ /dev/null"                                              *)
(*   Hunk     "@@ -o[,l] +<start>[,l] @@..." (matches hunkHeaderRegex)     *)
(*   BadHunk  "@@ -o[,l] @@" (no new-file start: no regex match)           *)
(*   Del      "-..."     Add  "+..."     Ctx  " ..."     Blank  ""         *)
(*   NoNl     "\ No newline at end of file"                                *)
(*   Meta     any other text ("index 1a2b..3c4d", "new file mode ...")     *)
(***************************************************************************)
EXTENDS Integers, Sequences, FiniteSets, TLC

VARIABLES
    mode,         \* which component this behaviour exercises
    \* ParseDiffLines
    diff,         \* the lines of the diff
    pos,          \* index of the next line of the range loop
    currentFile,  \* currentFile ("" = none)
    currentLine,  \* currentLine
    inHunk,       \* inHunk
    result,       \* result, path -> set of valid lines
    annotated,    \* AnnotateDiffWithLineNumbers(diff), line by line (<<>> before the call)
    \* FilterValidComments
    diffLines,    \* parameter diffLines
    comments,     \* parameter comments
    cidx,         \* index of the next comment of the range loop
    valid,        \* valid
    filtered,     \* filtered
    \* ChunkDiff (its input is diff)
    maxChunkSize, \* parameter maxChunkSize
    kpc,          \* position in ChunkDiff: "start", "pack", "done"
    files,        \* files := SplitDiffByFile(diff)
    fidx,         \* index of the next file of the range loop
    chunks,       \* chunks
    currentChunk, \* currentChunk
    \* MergeChunkResponses
    results,      \* parameter results
    mpc,          \* "start" before the call, "done" after it
    merged,       \* the MergedReview returned
    \* reviewChunkWithContext / retryWithBackoff (one dispatch)
    dpc,          \* "start", "call" (fn in flight), "backoff" (in the select), "done"
    attempt,      \* attempt
    calls,        \* number of invocations of fn so far
    outcomes,     \* what each finished invocation of fn returned
    waits,        \* the delays handed to time.After so far
    slept,        \* the time each finished wait lasted
    waited,       \* time spent in the current wait
    ctxErr,       \* timeoutCtx.Err(): "none", "canceled", "deadline"
    parentDone,   \* the context passed in by the caller is cancelled
    derr,         \* the error the dispatch returned
    \* reviewChunked
    nchunks,      \* len(chunks)
    gpc,          \* "start", "fanout" (tasks running, g.Wait pending), "returned"
    tpc,          \* per chunk task: "acquire", "call", "backoff", "ok", "err", "ctxerr"
    semCur,       \* slots of sem in use
    gresults,     \* the results slice
    gerr,         \* the error errgroup keeps: the first one a task returned
    callerDone,   \* ctx, the caller's context, is cancelled
    freturn,      \* what reviewChunked returned
    outOfOrder,   \* history: a chunk completed before a chunk of lower index
    \* ParseResponse
    response,     \* parameter response
    rpc,          \* "start" before the call, "done" after it
    cleaned,      \* cleaned := cleanResponse(response)
    parsed,       \* what ParseResponse returned
    \* reviewFirst (its input is diff)
    large,        \* len(diff) > ChunkThreshold
    fpc,          \* "start", "chunks", "parsed", "posted", "failed"
    fchunks,      \* the diff of each chunk of reviewChunked
    fk,           \* index of the next chunk whose result is taken
    fcomments,    \* parsed.Comments
    posted,       \* reviewReq.Comments, handed to CreateReview
    \* reviewChunked with the attempts of each dispatch counted
    poolN,          \* len(chunks)
    poolPc,         \* "start", "fanout", "returned"
    pool,           \* how many chunk tasks are at each position
    poolSem,        \* slots of sem in use
    poolCallerDone, \* ctx, the caller's context, is cancelled
    poolErr         \* the errgroup holds an error: gctx is cancelled

parseVars == <<diff, pos, currentFile, currentLine, inHunk, result, annotated>>
filterVars == <<diffLines, comments, cidx, valid, filtered>>
chunkVars == <<maxChunkSize, kpc, files, fidx, chunks, currentChunk>>
mergeVars == <<results, mpc, merged>>
dispatchVars == <<dpc, attempt, calls, outcomes, waits, slept, waited,
                  ctxErr, parentDone, derr>>
chunkedVars == <<nchunks, gpc, tpc, semCur, gresults, gerr, callerDone, freturn,
                 outOfOrder>>
responseVars == <<response, rpc, cleaned, parsed>>
firstVars == <<large, fpc, fchunks, fk, fcomments, posted>>
poolVars == <<poolN, poolPc, pool, poolSem, poolCallerDone, poolErr>>
vars == <<mode, parseVars, filterVars, chunkVars, mergeVars, dispatchVars,
          chunkedVars, responseVars, firstVars, poolVars>>

(***************************************************************************)
(* Bounds of the model.                                                    *)
(***************************************************************************)
MaxLines == 4
MaxComments == 3
MaxDiffLines == 5
MaxResults == 3
MaxChunks == 6

\* paths and hunk starts the bounded diffs are built from
Paths == {"a", "b"}
HunkStarts == {1, 3}

\* a path no diff of the model mentions
NoSuchPath == "nonexistent"

(***************************************************************************)
(* Lines.                                                                  *)
(***************************************************************************)
Line(k, p, s) == [kind |-> k, path |-> p, start |-> s]

ParseLines ==
    {Line(k, "", 0) : k \in {"Git", "DevNull", "BadHunk", "Del", "Add",
                             "Ctx", "Blank", "NoNl", "Meta"}}
    \cup {Line("PlusB", p, 0) : p \in Paths}
    \cup {Line("Hunk", "", s) : s \in HunkStarts}

SeqsUpTo(S, n) == UNION {[1..k -> S] : k \in 0..n}
\* strings.Split never returns an empty slice: the empty diff is one "" line
NonEmptySeqsUpTo(S, n) == UNION {[1..k -> S] : k \in 1..n}

\* strings.HasPrefix(line, "diff --git"); a GitShort line is a marker with
\* fewer than four space-separated parts
IsGitMarker(l) == l.kind \in {"Git", "GitShort"}
\* strings.HasPrefix(line, "+++ b/")
IsPlusB(l) == l.kind = "PlusB"
\* strings.HasPrefix(line, "+++ /dev/null")
IsDevNull(l) == l.kind = "DevNull"
\* hunkHeaderRegex.FindStringSubmatch(line) != nil
MatchesHunkHeader(l) == l.kind = "Hunk"
\* strings.HasPrefix(line, "-")
HasPrefixMinus(l) == l.kind = "Del"
\* strings.HasPrefix(line, "+"): the "+++" markers start with "+" too
HasPrefixPlus(l) == l.kind \in {"Add", "PlusB", "DevNull"}
\* strings.HasPrefix(line, " ") || line == ""
IsContext(l) == l.kind \in {"Ctx", "Blank"}
\* strings.HasPrefix(line, "\\")
HasPrefixBackslash(l) == l.kind = "NoNl"

(***************************************************************************)
(* DiffLineMap: map[string]map[int]bool, here path -> set of lines.        *)
(***************************************************************************)
EmptyMap == [p \in {} |-> {}]

\* result[currentFile] == nil => result[currentFile] = make(map[int]bool)
EnsureFile(m, f) ==
    [p \in DOMAIN m \cup {f} |-> IF p \in DOMAIN m THEN m[p] ELSE {}]

\* result[currentFile][currentLine] = true
MarkValid(m, f, n) == [m EXCEPT ![f] = @ \cup {n}]

\* a lookup that forgets the path: the line is valid in some file of the map
IsValidCommentLineAnyFile(m, path, line) ==
    line \in UNION {m[p] : p \in DOMAIN m}

\* func (m DiffLineMap) IsValidCommentLine(path string, line int) bool
IsValidCommentLine(m, path, line) ==
    IF path \notin DOMAIN m THEN FALSE ELSE line \in m[path]

(***************************************************************************)
(* ParseDiffLines: one action per iteration of the range loop.             *)
(***************************************************************************)
\* the variables of a component that a behaviour does not exercise
ParseIdle ==
    /\ diff = <<>> /\ pos = 1 /\ currentFile = "" /\ currentLine = 0
    /\ inHunk = FALSE /\ result = EmptyMap /\ annotated = <<>>
FilterIdle ==
    /\ diffLines = EmptyMap /\ comments = <<>> /\ cidx = 1
    /\ valid = <<>> /\ filtered = 0
ChunkIdle ==
    /\ maxChunkSize = 0 /\ kpc = "idle" /\ files = <<>> /\ fidx = 1
    /\ chunks = <<>> /\ currentChunk = [Files |-> <<>>, SizeBytes |-> 0, Index |-> 0, Total |-> 0]
NoSummary == [text |-> "", count |-> 0, parts |-> <<>>]
MergeIdle ==
    /\ results = <<>> /\ mpc = "idle"
    /\ merged = [Summary |-> NoSummary, Comments |-> <<>>, Approval |-> ""]
NoError == [kind |-> "none", wraps |-> "none"]
NoReturn == [review |-> [Summary |-> NoSummary, Comments |-> <<>>, Approval |-> ""],
             hasReview |-> FALSE, err |-> [task |-> 0, labelled |-> FALSE]]
ChunkedIdle ==
    /\ nchunks = 0 /\ gpc = "idle" /\ tpc = <<>> /\ semCur = 0
    /\ gresults = <<>> /\ gerr = [task |-> 0, labelled |-> FALSE]
    /\ callerDone = FALSE /\ freturn = NoReturn /\ outOfOrder = FALSE
NoParsed == [err |-> "none", hasResult |-> FALSE,
             resp |-> [approval |-> "", comments |-> <<>>]]
ResponseIdle ==
    /\ response = <<>> /\ rpc = "idle" /\ cleaned = <<>> /\ parsed = NoParsed
FirstIdle ==
    /\ large = FALSE /\ fpc = "idle" /\ fchunks = <<>> /\ fk = 1
    /\ fcomments = <<>> /\ posted = <<>>
PoolIdle ==
    /\ poolN = 0 /\ poolPc = "idle" /\ pool = <<>> /\ poolSem = 0
    /\ poolCallerDone = FALSE /\ poolErr = FALSE
DispatchIdle ==
    /\ dpc = "idle" /\ attempt = 0 /\ calls = 0 /\ outcomes = <<>>
    /\ waits = <<>> /\ slept = <<>> /\ waited = 0
    /\ ctxErr = "none" /\ parentDone = FALSE /\ derr = NoError

InitParse ==
    /\ mode = "parse"
    /\ diff \in NonEmptySeqsUpTo(ParseLines, MaxLines)
    /\ pos = 1
    /\ currentFile = ""
    /\ currentLine = 0
    /\ inHunk = FALSE
    /\ result = EmptyMap
    /\ annotated = <<>>
    /\ FilterIdle /\ ChunkIdle /\ MergeIdle /\ DispatchIdle /\ ChunkedIdle
    /\ ResponseIdle /\ FirstIdle /\ PoolIdle

\* the prompt is built from the annotated diff before the line map is
\* computed from the same diff
Annotated == annotated # <<>>
ParseRunning == mode = "parse" /\ Annotated /\ pos <= Len(diff)
ParseDone == mode = "parse" /\ Annotated /\ pos > Len(diff)

\* the prefix AnnotateDiffWithLineNumbers writes in front of a line
NoMark == [mark |-> "none", n |-> 0]       \* the line passes through
BlankMark == [mark |-> "blank", n |-> 0]   \* "      | "
Numbered(k) == [mark |-> "num", n |-> k]   \* "%5d | "

\* the range loop of AnnotateDiffWithLineNumbers from line i on, with the
\* locals currentLine (cur) and inHunk (inH); a deleted line advances the
\* counter
RECURSIVE AnnotateLoopDelAdvances(_, _, _, _)
AnnotateLoopDelAdvances(d, i, cur, inH) ==
    IF i > Len(d) THEN <<>>
    ELSE IF IsGitMarker(d[i])
      THEN <<NoMark>> \o AnnotateLoopDelAdvances(d, i + 1, cur, FALSE)
      ELSE IF MatchesHunkHeader(d[i])
        THEN <<NoMark>> \o AnnotateLoopDelAdvances(d, i + 1, d[i].start, TRUE)
        ELSE IF ~inH
          THEN <<NoMark>> \o AnnotateLoopDelAdvances(d, i + 1, cur, inH)
          ELSE IF HasPrefixMinus(d[i])
            THEN <<BlankMark>> \o AnnotateLoopDelAdvances(d, i + 1, cur + 1, inH)
            ELSE IF HasPrefixPlus(d[i])
              THEN <<Numbered(cur)>> \o AnnotateLoopDelAdvances(d, i + 1, cur + 1, inH)
              ELSE IF HasPrefixBackslash(d[i])
                THEN <<NoMark>> \o AnnotateLoopDelAdvances(d, i + 1, cur, inH)
                ELSE <<Numbered(cur)>> \o AnnotateLoopDelAdvances(d, i + 1, cur + 1, inH)

\* the range loop of AnnotateDiffWithLineNumbers from line i on, with the
\* locals currentLine (cur) and inHunk (inH); without the branch for
\* "\ No newline at end of file", which is then numbered as a context line
RECURSIVE AnnotateLoopNumbersNoNl(_, _, _, _)
AnnotateLoopNumbersNoNl(d, i, cur, inH) ==
    IF i > Len(d) THEN <<>>
    ELSE IF IsGitMarker(d[i])
      THEN <<NoMark>> \o AnnotateLoopNumbersNoNl(d, i + 1, cur, FALSE)
      ELSE IF MatchesHunkHeader(d[i])
        THEN <<NoMark>> \o AnnotateLoopNumbersNoNl(d, i + 1, d[i].start, TRUE)
        ELSE IF ~inH
          THEN <<NoMark>> \o AnnotateLoopNumbersNoNl(d, i + 1, cur, inH)
          ELSE IF HasPrefixMinus(d[i])
            THEN <<BlankMark>> \o AnnotateLoopNumbersNoNl(d, i + 1, cur, inH)
            ELSE <<Numbered(cur)>> \o AnnotateLoopNumbersNoNl(d, i + 1, cur + 1, inH)

\* the range loop of AnnotateDiffWithLineNumbers from line i on, with the
\* locals currentLine (cur) and inHunk (inH)
RECURSIVE AnnotateLoop(_, _, _, _)
AnnotateLoop(d, i, cur, inH) ==
    IF i > Len(d) THEN <<>>
    ELSE IF IsGitMarker(d[i])
      THEN <<NoMark>> \o AnnotateLoop(d, i + 1, cur, FALSE)
      ELSE IF MatchesHunkHeader(d[i])
        THEN <<NoMark>> \o AnnotateLoop(d, i + 1, d[i].start, TRUE)
        ELSE IF ~inH
          THEN <<NoMark>> \o AnnotateLoop(d, i + 1, cur, inH)
          ELSE IF HasPrefixMinus(d[i])
            THEN <<BlankMark>> \o AnnotateLoop(d, i + 1, cur, inH)
            ELSE IF HasPrefixPlus(d[i])
              THEN <<Numbered(cur)>> \o AnnotateLoop(d, i + 1, cur + 1, inH)
              ELSE IF HasPrefixBackslash(d[i])
                THEN <<NoMark>> \o AnnotateLoop(d, i + 1, cur, inH)
                ELSE <<Numbered(cur)>> \o AnnotateLoop(d, i + 1, cur + 1, inH)

AnnotateDiffWithLineNumbers(d) == AnnotateLoop(d, 1, 0, FALSE)

\* annotated := AnnotateDiffWithLineNumbers(diff)
AnnotateCall ==
    /\ mode = "parse" /\ ~Annotated
    /\ annotated' = AnnotateDiffWithLineNumbers(diff)
    /\ UNCHANGED <<mode, diff, pos, currentFile, currentLine, inHunk, result>>
    /\ UNCHANGED <<filterVars, chunkVars, mergeVars, dispatchVars, chunkedVars, responseVars, firstVars, poolVars>>

\* "+++ b/<path>": new file in diff
ParseNewFile ==
    /\ ParseRunning
    /\ IsPlusB(diff[pos])
    /\ currentFile' = diff[pos].path
    /\ result' = EnsureFile(result, diff[pos].path)
    /\ inHunk' = FALSE
    /\ pos' = pos + 1
    /\ UNCHANGED <<mode, diff, currentLine, annotated>>
    /\ UNCHANGED <<filterVars, chunkVars, mergeVars, dispatchVars, chunkedVars, responseVars, firstVars, poolVars>>

\* "+++ /dev/null": deleted file
ParseDevNull ==
    /\ ParseRunning
    /\ ~IsPlusB(diff[pos])
    /\ IsDevNull(diff[pos])
    /\ currentFile' = ""
    /\ inHunk' = FALSE
    /\ pos' = pos + 1
    /\ UNCHANGED <<mode, diff, currentLine, result, annotated>>
    /\ UNCHANGED <<filterVars, chunkVars, mergeVars, dispatchVars, chunkedVars, responseVars, firstVars, poolVars>>

\* hunk header: skipped when there is no current file
ParseHunkHeader ==
    /\ ParseRunning
    /\ ~IsPlusB(diff[pos]) /\ ~IsDevNull(diff[pos])
    /\ MatchesHunkHeader(diff[pos])
    /\ IF currentFile = ""
         THEN UNCHANGED <<currentLine, inHunk>>
         ELSE /\ currentLine' = diff[pos].start
              /\ inHunk' = TRUE
    /\ pos' = pos + 1
    /\ UNCHANGED <<mode, diff, currentFile, result, annotated>>
    /\ UNCHANGED <<filterVars, chunkVars, mergeVars, dispatchVars, chunkedVars, responseVars, firstVars, poolVars>>

\* the rest of the loop body, without the last branch: a "diff --git" line
\* leaves inHunk as it is
ParseBodyLineKeepsHunk ==
    /\ ParseRunning
    /\ ~IsPlusB(diff[pos]) /\ ~IsDevNull(diff[pos])
    /\ ~MatchesHunkHeader(diff[pos])
    /\ IF ~inHunk \/ currentFile = ""
         THEN UNCHANGED <<currentLine, inHunk, result>>
         ELSE IF HasPrefixMinus(diff[pos])
           THEN UNCHANGED <<currentLine, inHunk, result>>
           ELSE IF HasPrefixPlus(diff[pos]) \/ IsContext(diff[pos])
             THEN /\ result' = MarkValid(result, currentFile, currentLine)
                  /\ currentLine' = currentLine + 1
                  /\ UNCHANGED inHunk
             ELSE UNCHANGED <<currentLine, inHunk, result>>
    /\ pos' = pos + 1
    /\ UNCHANGED <<mode, diff, currentFile, annotated>>
    /\ UNCHANGED <<filterVars, chunkVars, mergeVars, dispatchVars, chunkedVars, responseVars, firstVars, poolVars>>

\* the rest of the loop body
ParseBodyLine ==
    /\ ParseRunning
    /\ ~IsPlusB(diff[pos]) /\ ~IsDevNull(diff[pos])
    /\ ~MatchesHunkHeader(diff[pos])
    /\ IF ~inHunk \/ currentFile = ""
         THEN UNCHANGED <<currentLine, inHunk, result>>
         ELSE IF HasPrefixMinus(diff[pos])
           THEN UNCHANGED <<currentLine, inHunk, result>>
           ELSE IF HasPrefixPlus(diff[pos]) \/ IsContext(diff[pos])
             THEN /\ result' = MarkValid(result, currentFile, currentLine)
                  /\ currentLine' = currentLine + 1
                  /\ UNCHANGED inHunk
             ELSE IF HasPrefixBackslash(diff[pos])
               THEN UNCHANGED <<currentLine, inHunk, result>>
               ELSE IF IsGitMarker(diff[pos])
                 THEN /\ inHunk' = FALSE
                      /\ UNCHANGED <<currentLine, result>>
                 ELSE UNCHANGED <<currentLine, inHunk, result>>
    /\ pos' = pos + 1
    /\ UNCHANGED <<mode, diff, currentFile, annotated>>
    /\ UNCHANGED <<filterVars, chunkVars, mergeVars, dispatchVars, chunkedVars, responseVars, firstVars, poolVars>>

NextParse ==
    AnnotateCall \/ ParseNewFile \/ ParseDevNull \/ ParseHunkHeader \/ ParseBodyLine

SpecParse == InitParse /\ [][NextParse]_vars

(***************************************************************************)
(* The new-file lines of a diff, read off the diff itself: a file section  *)
(* starts at a "diff --git" line (or at the start of the diff), its path   *)
(* is given by the last "+++" marker of the section before the line, a     *)
(* hunk by the last well-formed hunk header after that marker.             *)
(***************************************************************************)
MaxOf(S) == CHOOSE x \in S : \A y \in S : y <= x
LastBefore(d, lo, i, kinds) ==
    LET S == {j \in (lo + 1)..(i - 1) : d[j].kind \in kinds}
    IN  IF S = {} THEN 0 ELSE MaxOf(S)

NewFileKinds == {"Add", "Ctx", "Blank"}
SectionStart(d, i) == LastBefore(d, 0, i, {"Git"})
MarkerOf(d, i) == LastBefore(d, SectionStart(d, i), i, {"PlusB", "DevNull"})
HunkOf(d, i) ==
    IF MarkerOf(d, i) = 0 THEN 0
    ELSE LastBefore(d, MarkerOf(d, i), i, {"Hunk"})
NewLineNo(d, i) ==
    d[HunkOf(d, i)].start
      + Cardinality({j \in (HunkOf(d, i) + 1)..(i - 1) : d[j].kind \in NewFileKinds})

\* line i is an added or context line inside a hunk of the section of a
\* file that exists in the new revision
IsNewFileLine(d, i) ==
    /\ d[i].kind \in NewFileKinds
    /\ MarkerOf(d, i) # 0
    /\ d[MarkerOf(d, i)].kind = "PlusB"
    /\ HunkOf(d, i) # 0

SectionLines(d) ==
    {<<d[MarkerOf(d, i)].path, NewLineNo(d, i)>> :
        i \in {j \in 1..Len(d) : IsNewFileLine(d, j)}}

CheckedPaths == Paths \cup {NoSuchPath}
CheckedLineNos == 0..(MaxOf(HunkStarts) + MaxLines)

\* C1: for every diff, IsValidCommentLine(path, n) on ParseDiffLines(diff)
\* is true if and only if n is the new-file line number of an added or
\* context line inside a hunk of path's file section (so never for a
\* deleted line, a "+++ /dev/null" section, an unknown path or a line no
\* hunk covers).
C1_ValidIffSectionLine ==
    ParseDone =>
        \A p \in CheckedPaths : \A n \in CheckedLineNos :
            IsValidCommentLine(result, p, n) <=> <<p, n>> \in SectionLines(diff)

\* the same with the file of a line taken to be the last "+++" marker
\* before it, whether or not a "diff --git" line lies in between
MarkerOfAny(d, i) == LastBefore(d, 0, i, {"PlusB", "DevNull"})
HunkOfAny(d, i) ==
    IF MarkerOfAny(d, i) = 0 THEN 0
    ELSE LastBefore(d, MaxOf({MarkerOfAny(d, i), SectionStart(d, i)}), i, {"Hunk"})
NewLineNoAny(d, i) ==
    d[HunkOfAny(d, i)].start
      + Cardinality({j \in (HunkOfAny(d, i) + 1)..(i - 1) : d[j].kind \in NewFileKinds})
MarkerLines(d) ==
    {<<d[MarkerOfAny(d, i)].path, NewLineNoAny(d, i)>> :
        i \in {j \in 1..Len(d) :
                 /\ d[j].kind \in NewFileKinds
                 /\ MarkerOfAny(d, j) # 0
                 /\ d[MarkerOfAny(d, j)].kind = "PlusB"
                 /\ HunkOfAny(d, j) # 0}}

\* what ParseDiffLines computes: the lines of the hunks that follow a
\* "+++ b/<path>" marker, under that marker's path
ParseMatchesMarkerLines ==
    ParseDone =>
        \A p \in CheckedPaths : \A n \in CheckedLineNos :
            IsValidCommentLine(result, p, n) <=> <<p, n>> \in MarkerLines(diff)

(***************************************************************************)
(* The annotated diff against the line map.                                *)
(***************************************************************************)
\* the files a printed number can be read as a line of: the file named by
\* the last "+++ b/" marker of the line's section; any file when the
\* section has no such marker before the line
FilesOfLine(d, i) ==
    IF MarkerOf(d, i) # 0 /\ d[MarkerOf(d, i)].kind = "PlusB"
    THEN {d[MarkerOf(d, i)].path}
    ELSE CheckedPaths

\* C23: every line number AnnotateDiffWithLineNumbers prints in front of a
\* line of a file's section is a valid comment line of that file in
\* ParseDiffLines(diff).
C23_AnnotatedNumbersAreValid ==
    ParseDone =>
        \A i \in 1..Len(diff) :
            annotated[i].mark = "num" =>
                \E p \in FilesOfLine(diff, i) :
                    IsValidCommentLine(result, p, annotated[i].n)

\* the lines of a hunk: the maximal run of added, context, deleted and
\* "\ No newline" lines after a well-formed hunk header
HunkBodyKinds == {"Add", "Ctx", "Blank", "Del", "NoNl"}
InHunkBody(d, h, i) ==
    /\ h < i
    /\ MatchesHunkHeader(d[h])
    /\ \A j \in (h + 1)..i : d[j].kind \in HunkBodyKinds
HunkLineNo(d, h, i) ==
    d[h].start + Cardinality({j \in (h + 1)..(i - 1) : d[j].kind \in NewFileKinds})
HasNewFile(d, h) == MarkerOf(d, h) # 0 /\ d[MarkerOf(d, h)].kind = "PlusB"

\* what holds of the numbers the annotator prints: the number in front of
\* an added or context line of a hunk of a file of the new revision is a
\* valid comment line of that file
AnnotatedHunkLinesAreValid ==
    ParseDone =>
        \A h \in 1..Len(diff) : \A i \in 1..Len(diff) :
            (InHunkBody(diff, h, i) /\ HasNewFile(diff, h)
               /\ diff[i].kind \in NewFileKinds) =>
                /\ annotated[i].mark = "num"
                /\ IsValidCommentLine(result, diff[MarkerOf(diff, h)].path,
                                      annotated[i].n)

\* C28: within one hunk whose header gives the new-file start s, both
\* walkers number the added and context lines s, s+1, ... in order of
\* appearance (each line gets the value of the cursor before the
\* increment); a deleted line gets the blank marker in the rendering, adds
\* nothing to the line map and leaves the cursor where it is.
C28_HunkLinesNumberedFromStart ==
    /\ [](ParseDone =>
            \A h \in 1..Len(diff) : \A i \in 1..Len(diff) :
                InHunkBody(diff, h, i) =>
                    /\ diff[i].kind \in NewFileKinds =>
                         /\ annotated[i] = Numbered(HunkLineNo(diff, h, i))
                         /\ HasNewFile(diff, h) =>
                              IsValidCommentLine(result, diff[MarkerOf(diff, h)].path,
                                                 HunkLineNo(diff, h, i))
                    /\ HasPrefixMinus(diff[i]) => annotated[i] = BlankMark)
    /\ [][(ParseRunning /\ HasPrefixMinus(diff[pos])) =>
            (result' = result /\ currentLine' = currentLine)]_vars

\* a hunk of a file of the new revision with a deleted line followed by an
\* added or context line has been walked by both
C28_Witness ==
    /\ ParseDone
    /\ \E h \in 1..Len(diff) : \E i \in 1..Len(diff) : \E j \in 1..Len(diff) :
        /\ i < j /\ InHunkBody(diff, h, j) /\ HasNewFile(diff, h)
        /\ HasPrefixMinus(diff[i]) /\ diff[j].kind \in NewFileKinds
        /\ annotated[i] = BlankMark
        /\ annotated[j] = Numbered(diff[h].start)
        /\ result[diff[MarkerOf(diff, h)].path] = {diff[h].start}

\* line i comes after a "diff --git" line with no well-formed hunk header
\* from that line up to and including i
AfterGitNoHunk(d, i) ==
    \E g \in 1..(i - 1) :
        /\ IsGitMarker(d[g])
        /\ \A j \in (g + 1)..i : ~MatchesHunkHeader(d[j])

\* C29: after any "diff --git" line, whatever the state before it, both
\* walkers are outside a hunk: no following line is numbered in the
\* rendering or marked valid in the line map until the next well-formed
\* hunk header.
C29_GitLineClosesHunk ==
    /\ [](Annotated =>
            \A i \in 1..Len(diff) :
                AfterGitNoHunk(diff, i) => annotated[i] = NoMark)
    /\ [][ParseRunning =>
            /\ IsGitMarker(diff[pos]) => inHunk' = FALSE
            /\ AfterGitNoHunk(diff, pos) =>
                 \A p \in CheckedPaths : \A n \in CheckedLineNos :
                     IsValidCommentLine(result', p, n) =>
                         IsValidCommentLine(result, p, n)]_vars

\* an added or context line follows a "diff --git" line that came inside
\* an open hunk of a file of the new revision
C29_Witness ==
    /\ ParseDone
    /\ \E h \in 1..Len(diff) : \E g \in 1..Len(diff) : \E i \in 1..Len(diff) :
        /\ h < g /\ g < i
        /\ MatchesHunkHeader(diff[h]) /\ HasNewFile(diff, h)
        /\ \A j \in (h + 1)..(g - 1) : diff[j].kind \in HunkBodyKinds
        /\ IsGitMarker(diff[g])
        /\ diff[i].kind \in NewFileKinds
        /\ AfterGitNoHunk(diff, i)
        /\ annotated[i] = NoMark
        /\ \A n \in CheckedLineNos :
             IsValidCommentLine(result, diff[MarkerOf(diff, h)].path, n) =>
                 n < HunkLineNo(diff, h, g)

\* line i comes after a hunk header without new-file start ("@@ -o,l @@"),
\* with no well-formed hunk header from that line up to and including i
AfterBadHunk(d, i) ==
    \E b \in 1..(i - 1) :
        /\ d[b].kind = "BadHunk"
        /\ \A j \in (b + 1)..i : ~MatchesHunkHeader(d[j])

\* C31: a hunk header that lacks an explicit new-file start is a hard
\* parse error: neither walker goes on numbering or validating the body
\* lines that follow it, from a guessed default or from the cursor left
\* over by the previous hunk (the header itself gets no number either).
C31_BadHunkHeaderStopsWalk ==
    /\ [](Annotated =>
            \A i \in 1..Len(diff) :
                (diff[i].kind = "BadHunk" \/ AfterBadHunk(diff, i)) =>
                    annotated[i].mark # "num")
    /\ [][(ParseRunning /\ AfterBadHunk(diff, pos)) =>
            \A p \in CheckedPaths : \A n \in CheckedLineNos :
                IsValidCommentLine(result', p, n) =>
                    IsValidCommentLine(result, p, n)]_vars

\* what holds instead: a header without new-file start is skipped like any
\* other text, so nothing after it is numbered or validated as long as no
\* well-formed hunk header came before it
BadHunkHeaderOutsideHunkIsInert ==
    /\ [](Annotated =>
            \A i \in 1..Len(diff) :
                ((diff[i].kind = "BadHunk" \/ AfterBadHunk(diff, i))
                   /\ \A j \in 1..i : ~MatchesHunkHeader(diff[j])) =>
                    annotated[i].mark # "num")
    /\ [][(ParseRunning /\ AfterBadHunk(diff, pos)
             /\ \A j \in 1..pos : ~MatchesHunkHeader(diff[j])) =>
            \A p \in CheckedPaths : \A n \in CheckedLineNos :
                IsValidCommentLine(result', p, n) =>
                    IsValidCommentLine(result, p, n)]_vars

\* inHunk of AnnotateDiffWithLineNumbers when it meets line i: set by the
\* last well-formed hunk header, cleared by a "diff --git" line only
AnnotateInHunk(d, i) ==
    LastBefore(d, 0, i, {"Hunk"}) > LastBefore(d, 0, i, {"Git", "GitShort"})
\* a sequence without its i-th element
RemoveAt(s, i) == [k \in 1..(Len(s) - 1) |-> IF k < i THEN s[k] ELSE s[k + 1]]
\* the line has no valid comment line added to or removed from the map
SameValidLines(m1, m2) ==
    \A p \in CheckedPaths : \A n \in CheckedLineNos :
        IsValidCommentLine(m1, p, n) <=> IsValidCommentLine(m2, p, n)

\* C37: a "\ No newline at end of file" line inside a hunk, and any line
\* but a hunk header met outside a hunk, is copied unchanged into the
\* rendering and changes neither the cursor (the rendering of the other
\* lines is the one of the diff without the line) nor the valid lines of
\* the line map; the rendering has as many lines as the diff.
C37_PassThroughLinesAreInert ==
    /\ [](Annotated =>
            /\ Len(annotated) = Len(diff)
            /\ \A i \in 1..Len(diff) :
                  (\/ AnnotateInHunk(diff, i) /\ HasPrefixBackslash(diff[i])
                   \/ ~AnnotateInHunk(diff, i) /\ ~MatchesHunkHeader(diff[i])) =>
                      /\ annotated[i] = NoMark
                      /\ AnnotateDiffWithLineNumbers(RemoveAt(diff, i))
                             = RemoveAt(annotated, i))
    /\ [][(/\ ParseRunning
           /\ \/ inHunk /\ HasPrefixBackslash(diff[pos])
              \/ ~inHunk /\ ~MatchesHunkHeader(diff[pos])) =>
            /\ currentLine' = currentLine
            /\ SameValidLines(result', result)]_vars

\* a "\ No newline at end of file" line between the header of a hunk of a
\* file of the new revision and an added or context line, walked by both:
\* the line after it has the number of the header
C37_Witness ==
    /\ ParseDone
    /\ \E h \in 1..Len(diff) :
        /\ h + 2 <= Len(diff)
        /\ MatchesHunkHeader(diff[h]) /\ HasNewFile(diff, h)
        /\ HasPrefixBackslash(diff[h + 1])
        /\ diff[h + 2].kind \in NewFileKinds
        /\ annotated[h + 1] = NoMark
        /\ annotated[h + 2] = Numbered(diff[h].start)
        /\ result[diff[MarkerOf(diff, h)].path] = {diff[h].start}
        /\ annotated[MarkerOf(diff, h)] = NoMark

\* C30: ParseDiffLines never marks a line of one file section as valid
\* under the path of an earlier section, also when a section has no "+++"
\* line of its own: every valid (path, n) is the number of an added or
\* context line of a hunk of path's own section.
C30_NoLineUnderEarlierSection ==
    ParseDone =>
        \A p \in CheckedPaths : \A n \in CheckedLineNos :
            IsValidCommentLine(result, p, n) => <<p, n>> \in SectionLines(diff)

\* what ParseDiffLines guarantees instead: a valid (path, n) comes from a
\* hunk line after a "+++ b/<path>" marker, of whichever section
ValidOnlyAfterMarker ==
    ParseDone =>
        \A p \in CheckedPaths : \A n \in CheckedLineNos :
            IsValidCommentLine(result, p, n) => <<p, n>> \in MarkerLines(diff)

(***************************************************************************)
(* FilterValidComments: one action per iteration of the range loop.  With  *)
(* no comments the function returns at once (comments, 0).                 *)
(***************************************************************************)
FilterLineNos == 1..2
FilterBodies == {"x", "y"}
Comment(p, n, b) == [path |-> p, line |-> n, body |-> b]
FilterComments ==
    {Comment(p, n, b) : p \in Paths, n \in FilterLineNos, b \in FilterBodies}
FilterMaps ==
    UNION {[D -> SUBSET FilterLineNos] : D \in SUBSET Paths}

InitFilter ==
    /\ mode = "filter"
    /\ diffLines \in FilterMaps
    /\ comments \in SeqsUpTo(FilterComments, MaxComments)
    /\ cidx = 1
    /\ valid = <<>>
    /\ filtered = 0
    /\ ParseIdle /\ ChunkIdle /\ MergeIdle /\ DispatchIdle /\ ChunkedIdle
    /\ ResponseIdle /\ FirstIdle /\ PoolIdle

FilterRunning == mode = "filter" /\ cidx <= Len(comments)
FilterDone == mode = "filter" /\ cidx > Len(comments)

\* valid = append(valid, c)
FilterKeep ==
    /\ FilterRunning
    /\ IsValidCommentLine(diffLines, comments[cidx].path, comments[cidx].line)
    /\ valid' = Append(valid, comments[cidx])
    /\ cidx' = cidx + 1
    /\ UNCHANGED <<mode, diffLines, comments, filtered>>
    /\ UNCHANGED <<parseVars, chunkVars, mergeVars, dispatchVars, chunkedVars, responseVars, firstVars, poolVars>>

\* filtered++ (and a log line)
FilterDrop ==
    /\ FilterRunning
    /\ ~IsValidCommentLine(diffLines, comments[cidx].path, comments[cidx].line)
    /\ filtered' = filtered + 1
    /\ cidx' = cidx + 1
    /\ UNCHANGED <<mode, diffLines, comments, valid>>
    /\ UNCHANGED <<parseVars, chunkVars, mergeVars, dispatchVars, chunkedVars, responseVars, firstVars, poolVars>>

NextFilter == FilterKeep \/ FilterDrop

SpecFilter == InitFilter /\ [][NextFilter]_vars

InMap(m, c) == c.path \in DOMAIN m /\ c.line \in m[c.path]

\* C7: FilterValidComments returns exactly the comments whose (path, line)
\* is in the map, in their original relative order, and a filtered count
\* equal to the number of comments dropped: kept + filtered = len(comments).
C7_FilterKeepsExactlyValid ==
    FilterDone =>
        /\ valid = SelectSeq(comments, LAMBDA c : InMap(diffLines, c))
        /\ filtered = Cardinality({i \in 1..Len(comments) : ~InMap(diffLines, comments[i])})
        /\ Len(valid) + filtered = Len(comments)

\* three comments, the middle one on a line that is not in the map
C7_Witness ==
    /\ FilterDone
    /\ Len(comments) = 3
    /\ ~InMap(diffLines, comments[2])
    /\ valid = <<comments[1], comments[3]>>
    /\ comments[1] # comments[3]
    /\ filtered = 1

(***************************************************************************)
(* SplitDiffByFile.  A FileDiff's Content is kept as its lines: the        *)
(* builder holds each line followed by "\n" and the flush trims one "\n",  *)
(* so Content is the lines joined by "\n" and len(Content) is the lines'   *)
(* lengths plus one byte per separator.                                    *)
(***************************************************************************)
\* len(line), a representative length per kind of line
LineLen(l) ==
    CASE l.kind \in {"Git", "GitShort"} -> 3
      [] l.kind = "Blank" -> 0
      [] l.kind = "Meta" -> 4
      [] OTHER -> 1

RECURSIVE SumLen(_)
SumLen(c) == IF c = <<>> THEN 0 ELSE LineLen(Head(c)) + SumLen(Tail(c))
\* len(file.Content)
ContentLen(c) == IF c = <<>> THEN 0 ELSE SumLen(c) + (Len(c) - 1)

FileDiff(p, c) == [Path |-> p, Content |-> c]

\* parts := strings.Split(line, " "); strings.TrimPrefix(parts[3], "b/") or
\* "unknown"; the path field of a Git line is parts[3] without its "b/"
MarkerPath(l) == IF l.kind = "GitShort" THEN "unknown" ELSE l.path

\* the diff "": strings.Split gives the single line ""
EmptyDiff == <<Line("Blank", "", 0)>>

RECURSIVE SplitLoop(_, _, _, _, _)
SplitLoop(d, i, fs, curPath, content) ==
    IF i > Len(d)
      THEN IF curPath # "" THEN Append(fs, FileDiff(curPath, content)) ELSE fs
      ELSE IF IsGitMarker(d[i])
        THEN IF curPath # ""
               THEN SplitLoop(d, i + 1, Append(fs, FileDiff(curPath, content)),
                              MarkerPath(d[i]), <<d[i]>>)
               ELSE SplitLoop(d, i + 1, fs, MarkerPath(d[i]), Append(content, d[i]))
        ELSE SplitLoop(d, i + 1, fs, curPath, Append(content, d[i]))

SplitDiffByFile(d) == IF d = EmptyDiff THEN <<>> ELSE SplitLoop(d, 1, <<>>, "", <<>>)

(***************************************************************************)
(* ChunkDiff: the call of SplitDiffByFile, one action per iteration of the *)
(* range loop, and the final flush with the Index/Total pass.              *)
(***************************************************************************)
SplitLines ==
    {Line("Git", p, 0) : p \in Paths \cup {""}}
    \cup {Line(k, "", 0) : k \in {"GitShort", "Add", "Meta", "Blank"}}
MaxChunkSizes == {5, 8}

NewChunk == [Files |-> <<>>, SizeBytes |-> 0, Index |-> 0, Total |-> 0]

InitChunk ==
    /\ mode = "chunk"
    /\ diff \in NonEmptySeqsUpTo(SplitLines, MaxDiffLines)
    /\ pos = 1 /\ currentFile = "" /\ currentLine = 0
    /\ inHunk = FALSE /\ result = EmptyMap /\ annotated = <<>>
    /\ maxChunkSize \in MaxChunkSizes
    /\ kpc = "start"
    /\ files = <<>>
    /\ fidx = 1
    /\ chunks = <<>>
    /\ currentChunk = NewChunk
    /\ FilterIdle /\ MergeIdle /\ DispatchIdle /\ ChunkedIdle
    /\ ResponseIdle /\ FirstIdle /\ PoolIdle

ChunkDone == mode = "chunk" /\ kpc = "done"

\* files := SplitDiffByFile(diff); if len(files) == 0 { return nil }
ChunkSplit ==
    /\ mode = "chunk" /\ kpc = "start"
    /\ files' = SplitDiffByFile(diff)
    /\ kpc' = IF Len(files') = 0 THEN "done" ELSE "pack"
    /\ UNCHANGED <<mode, maxChunkSize, fidx, chunks, currentChunk>>
    /\ UNCHANGED <<parseVars, filterVars, mergeVars, dispatchVars, chunkedVars, responseVars, firstVars, poolVars>>

\* a file larger than the maximum gets a chunk of its own, whose SizeBytes
\* is left at zero
ChunkOversizedNoSize ==
    /\ mode = "chunk" /\ kpc = "pack" /\ fidx <= Len(files)
    /\ LET file == files[fidx]
           fileSize == ContentLen(file.Content)
           flushed == IF Len(currentChunk.Files) > 0
                        THEN Append(chunks, currentChunk) ELSE chunks
       IN  /\ fileSize > maxChunkSize
           /\ chunks' = Append(flushed, [NewChunk EXCEPT !.Files = <<file>>])
           /\ currentChunk' = IF Len(currentChunk.Files) > 0
                                THEN NewChunk ELSE currentChunk
    /\ fidx' = fidx + 1
    /\ UNCHANGED <<mode, maxChunkSize, kpc, files>>
    /\ UNCHANGED <<parseVars, filterVars, mergeVars, dispatchVars, chunkedVars, responseVars, firstVars, poolVars>>

\* a file larger than the maximum gets a chunk of its own
ChunkOversized ==
    /\ mode = "chunk" /\ kpc = "pack" /\ fidx <= Len(files)
    /\ LET file == files[fidx]
           fileSize == ContentLen(file.Content)
           flushed == IF Len(currentChunk.Files) > 0
                        THEN Append(chunks, currentChunk) ELSE chunks
       IN  /\ fileSize > maxChunkSize
           /\ chunks' = Append(flushed, [NewChunk EXCEPT !.Files = <<file>>,
                                                          !.SizeBytes = fileSize])
           /\ currentChunk' = IF Len(currentChunk.Files) > 0
                                THEN NewChunk ELSE currentChunk
    /\ fidx' = fidx + 1
    /\ UNCHANGED <<mode, maxChunkSize, kpc, files>>
    /\ UNCHANGED <<parseVars, filterVars, mergeVars, dispatchVars, chunkedVars, responseVars, firstVars, poolVars>>

\* close the chunk under construction when the file does not fit
ChunkAddForgetsRunningSize ==
    /\ mode = "chunk" /\ kpc = "pack" /\ fidx <= Len(files)
    /\ LET file == files[fidx]
           fileSize == ContentLen(file.Content)
           flush == fileSize > maxChunkSize /\ Len(currentChunk.Files) > 0
           base == IF flush THEN NewChunk ELSE currentChunk
       IN  /\ fileSize <= maxChunkSize
           /\ chunks' = IF flush THEN Append(chunks, currentChunk) ELSE chunks
           /\ currentChunk' = [base EXCEPT !.Files = Append(@, file),
                                           !.SizeBytes = @ + fileSize]
    /\ fidx' = fidx + 1
    /\ UNCHANGED <<mode, maxChunkSize, kpc, files>>
    /\ UNCHANGED <<parseVars, filterVars, mergeVars, dispatchVars, chunkedVars, responseVars, firstVars, poolVars>>

\* close the chunk under construction before every file
ChunkAddAlwaysFlushes ==
    /\ mode = "chunk" /\ kpc = "pack" /\ fidx <= Len(files)
    /\ LET file == files[fidx]
           fileSize == ContentLen(file.Content)
           flush == Len(currentChunk.Files) > 0
           base == IF flush THEN NewChunk ELSE currentChunk
       IN  /\ fileSize <= maxChunkSize
           /\ chunks' = IF flush THEN Append(chunks, currentChunk) ELSE chunks
           /\ currentChunk' = [base EXCEPT !.Files = Append(@, file),
                                           !.SizeBytes = @ + fileSize]
    /\ fidx' = fidx + 1
    /\ UNCHANGED <<mode, maxChunkSize, kpc, files>>
    /\ UNCHANGED <<parseVars, filterVars, mergeVars, dispatchVars, chunkedVars, responseVars, firstVars, poolVars>>

\* a file that fits the maximum: close the chunk under construction first
\* when adding the file would exceed the limit, then add the file
ChunkAdd ==
    /\ mode = "chunk" /\ kpc = "pack" /\ fidx <= Len(files)
    /\ LET file == files[fidx]
           fileSize == ContentLen(file.Content)
           flush == /\ currentChunk.SizeBytes + fileSize > maxChunkSize
                    /\ Len(currentChunk.Files) > 0
           base == IF flush THEN NewChunk ELSE currentChunk
       IN  /\ fileSize <= maxChunkSize
           /\ chunks' = IF flush THEN Append(chunks, currentChunk) ELSE chunks
           /\ currentChunk' = [base EXCEPT !.Files = Append(@, file),
                                           !.SizeBytes = @ + fileSize]
    /\ fidx' = fidx + 1
    /\ UNCHANGED <<mode, maxChunkSize, kpc, files>>
    /\ UNCHANGED <<parseVars, filterVars, mergeVars, dispatchVars, chunkedVars, responseVars, firstVars, poolVars>>

\* the numbering starting at one
SetIndexTotalOneBased(cs) ==
    [i \in 1..Len(cs) |-> [cs[i] EXCEPT !.Index = i, !.Total = Len(cs)]]

\* chunks[i].Index = i; chunks[i].Total = total
SetIndexTotal(cs) ==
    [i \in 1..Len(cs) |-> [cs[i] EXCEPT !.Index = i - 1, !.Total = Len(cs)]]

\* the end of the loop without the flush of the chunk under construction
ChunkFinishDropsLast ==
    /\ mode = "chunk" /\ kpc = "pack" /\ fidx > Len(files)
    /\ chunks' = SetIndexTotal(chunks)
    /\ kpc' = "done"
    /\ UNCHANGED <<mode, maxChunkSize, files, fidx, currentChunk>>
    /\ UNCHANGED <<parseVars, filterVars, mergeVars, dispatchVars, chunkedVars, responseVars, firstVars, poolVars>>

\* after the loop: the last chunk, then Index and Total of every chunk
ChunkFinish ==
    /\ mode = "chunk" /\ kpc = "pack" /\ fidx > Len(files)
    /\ chunks' = SetIndexTotal(IF Len(currentChunk.Files) > 0
                                 THEN Append(chunks, currentChunk) ELSE chunks)
    /\ kpc' = "done"
    /\ UNCHANGED <<mode, maxChunkSize, files, fidx, currentChunk>>
    /\ UNCHANGED <<parseVars, filterVars, mergeVars, dispatchVars, chunkedVars, responseVars, firstVars, poolVars>>

NextChunk == ChunkSplit \/ ChunkOversized \/ ChunkAdd \/ ChunkFinish

SpecChunk == InitChunk /\ [][NextChunk]_vars

RECURSIVE ConcatFiles(_)
ConcatFiles(cs) == IF cs = <<>> THEN <<>> ELSE Head(cs).Files \o ConcatFiles(Tail(cs))

\* C2: every chunk of ChunkDiff(diff, M) has SizeBytes <= M or holds exactly
\* one file whose own content length exceeds M; an oversized file is always
\* alone in its chunk.
C2_ChunkWithinMaxOrOversizedSingleton ==
    ChunkDone =>
        \A k \in 1..Len(chunks) :
            /\ \/ chunks[k].SizeBytes <= maxChunkSize
               \/ /\ Len(chunks[k].Files) = 1
                  /\ ContentLen(chunks[k].Files[1].Content) > maxChunkSize
            /\ \A j \in 1..Len(chunks[k].Files) :
                   ContentLen(chunks[k].Files[j].Content) > maxChunkSize
                       => Len(chunks[k].Files) = 1

\* an oversized file alone in its chunk next to a chunk of several files
C2_Witness ==
    /\ ChunkDone
    /\ \E k \in 1..Len(chunks) :
           /\ Len(chunks[k].Files) = 1
           /\ chunks[k].SizeBytes > maxChunkSize
    /\ \E k \in 1..Len(chunks) :
           /\ Len(chunks[k].Files) >= 2
           /\ chunks[k].SizeBytes <= maxChunkSize

\* C3: the chunks partition the file sequence of SplitDiffByFile: no chunk
\* is empty, the chunks' file lists concatenated in index order are the
\* files in diff order, and the empty diff yields no chunks.
C3_ChunksPartitionFiles ==
    ChunkDone =>
        /\ \A k \in 1..Len(chunks) : Len(chunks[k].Files) >= 1
        /\ ConcatFiles(chunks) = SplitDiffByFile(diff)
        /\ diff = EmptyDiff => chunks = <<>>
        /\ SplitDiffByFile(diff) = <<>> => chunks = <<>>

\* three files packed into two chunks
C3_Witness ==
    /\ ChunkDone
    /\ Len(files) >= 3
    /\ Len(chunks) = 2
    /\ Len(chunks[1].Files) >= 2

\* func ChunkToDiff(chunk *Chunk) string: the Contents joined by "\n", that
\* is, their lines one after the other
RECURSIVE JoinContents(_)
JoinContents(fs) ==
    IF fs = <<>> THEN <<>> ELSE Head(fs).Content \o JoinContents(Tail(fs))
ChunkToDiff(chunk) == JoinContents(chunk.Files)

\* files := SplitDiffByFile(diff) has been computed
SplitDone == mode = "chunk" /\ kpc # "start"

\* the positions of the lines of d that begin with "diff --git", in order
MarkerPositions(d) == {i \in 1..Len(d) : IsGitMarker(d[i])}
RECURSIVE SortedSeq(_)
SortedSeq(S) ==
    IF S = {} THEN <<>>
    ELSE LET m == CHOOSE x \in S : \A y \in S : x <= y
         IN  <<m>> \o SortedSeq(S \ {m})
\* the lines of d from position lo up to position hi
Slice(d, lo, hi) == [j \in 1..(hi - lo + 1) |-> d[lo + j - 1]]

\* C21: SplitDiffByFile starts a new segment at every "diff --git" line
\* and nowhere else: as many segments as marker lines, in diff order, each
\* Content running from its own marker line up to the line before the next
\* marker (so it begins with its marker and holds no other), each Path the
\* path token of its marker, or "unknown" for a malformed marker.
C21_OneSegmentPerMarker ==
    SplitDone =>
        LET ms == SortedSeq(MarkerPositions(diff))
        IN  /\ Len(files) = Len(ms)
            /\ \A k \in 1..Len(files) :
                   /\ k <= Len(ms)
                   /\ files[k].Content =
                          Slice(diff, ms[k], IF k < Len(ms) THEN ms[k + 1] - 1 ELSE Len(diff))
                   /\ files[k].Path = MarkerPath(diff[ms[k]])

\* the diff begins with a marker and every marker has a path token that is
\* not empty
WellMarked(d) ==
    /\ IsGitMarker(d[1])
    /\ \A i \in MarkerPositions(d) : MarkerPath(d[i]) # ""

\* what SplitDiffByFile computes on such a diff
SplitsWellMarkedAtMarkers ==
    (SplitDone /\ WellMarked(diff)) =>
        LET ms == SortedSeq(MarkerPositions(diff))
        IN  /\ Len(files) = Len(ms)
            /\ \A k \in 1..Len(files) :
                   /\ files[k].Content =
                          Slice(diff, ms[k], IF k < Len(ms) THEN ms[k + 1] - 1 ELSE Len(diff))
                   /\ files[k].Path = MarkerPath(diff[ms[k]])

\* C22: for every non-empty diff the Contents of the segments of
\* SplitDiffByFile(diff), joined by single newlines (ChunkToDiff of a chunk
\* that holds all the segments), are the diff: no line lost or duplicated.
C22_SplitRoundTrip ==
    (SplitDone /\ diff # EmptyDiff) =>
        ChunkToDiff([NewChunk EXCEPT !.Files = files]) = diff

\* what SplitDiffByFile keeps: everything up to the last marker that has a
\* path, and what follows it; the lines of a diff without such a marker
\* and the lines from a last marker without a path on are lost
LastPathMarker(d) ==
    LET S == {i \in MarkerPositions(d) : MarkerPath(d[i]) # ""}
    IN  IF S = {} THEN 0 ELSE MaxOf(S)
SplitKeepsThroughLastPathMarker ==
    (SplitDone /\ diff # EmptyDiff) =>
        LET last == LastPathMarker(diff)
            later == {i \in MarkerPositions(diff) : i > last}
            kept == IF last = 0 THEN 0
                    ELSE IF later = {} THEN Len(diff)
                    ELSE (CHOOSE x \in later : \A y \in later : x <= y) - 1
        IN  JoinContents(files) = Slice(diff, 1, kept)

\* a chunk that holds one file whose content is longer than the maximum
OversizedSingleton(c) == Len(c.Files) = 1 /\ c.SizeBytes > maxChunkSize

\* C32: ChunkDiff closes the chunk under construction only when it must:
\* for any two consecutive chunks neither of which is an oversized
\* singleton, the SizeBytes of the first plus the size of the first file of
\* the second exceeds the maximum; so three files of equal size, two of
\* which fit the maximum and three of which do not, make two chunks, files
\* 1-2 together and file 3 alone.
C32_ChunkClosedOnlyWhenFull ==
    ChunkDone =>
        /\ \A k \in 1..(Len(chunks) - 1) :
             (~OversizedSingleton(chunks[k]) /\ ~OversizedSingleton(chunks[k + 1])) =>
                 chunks[k].SizeBytes + ContentLen(chunks[k + 1].Files[1].Content)
                     > maxChunkSize
        /\ (/\ Len(files) = 3
            /\ \A j \in 1..3 : ContentLen(files[j].Content) = ContentLen(files[1].Content)
            /\ 2 * ContentLen(files[1].Content) <= maxChunkSize
            /\ 3 * ContentLen(files[1].Content) > maxChunkSize) =>
               /\ Len(chunks) = 2
               /\ chunks[1].Files = <<files[1], files[2]>>
               /\ chunks[2].Files = <<files[3]>>

\* three files of equal size packed as files 1-2 and file 3, each chunk
\* reporting a total of 2
C32_Witness ==
    /\ ChunkDone
    /\ Len(files) = 3
    /\ \A j \in 1..3 : ContentLen(files[j].Content) = ContentLen(files[1].Content)
    /\ Len(chunks) = 2
    /\ chunks[1].Files = <<files[1], files[2]>>
    /\ chunks[2].Files = <<files[3]>>
    /\ chunks[1].SizeBytes + ContentLen(files[3].Content) > maxChunkSize
    /\ chunks[1].SizeBytes <= maxChunkSize
    /\ chunks[1].Total = 2 /\ chunks[2].Total = 2

\* C39: for every chunk of ChunkDiff, SizeBytes is the sum of its files'
\* content lengths, and the diff dispatched for the chunk,
\* ChunkToDiff(chunk), is those contents joined by single newlines, of
\* length exactly SizeBytes + (number of files - 1).
RECURSIVE SumContentLen(_)
SumContentLen(fs) ==
    IF fs = <<>> THEN 0 ELSE ContentLen(Head(fs).Content) + SumContentLen(Tail(fs))
C39_SizeBytesIsSumOfContents ==
    ChunkDone =>
        \A k \in 1..Len(chunks) :
            /\ chunks[k].SizeBytes = SumContentLen(chunks[k].Files)
            /\ ContentLen(ChunkToDiff(chunks[k]))
                   = chunks[k].SizeBytes + (Len(chunks[k].Files) - 1)

\* a chunk of two files has been packed
C39_Witness ==
    /\ ChunkDone
    /\ \E k \in 1..Len(chunks) :
         /\ Len(chunks[k].Files) = 2
         /\ chunks[k].SizeBytes = SumContentLen(chunks[k].Files)
         /\ ContentLen(ChunkToDiff(chunks[k])) = chunks[k].SizeBytes + 1

\* C20: for every result of ChunkDiff with N chunks, the Index values are
\* exactly 0..N-1 in slice order and every chunk's Total is N.
C20_IndexTotalConsistent ==
    ChunkDone =>
        \A k \in 1..Len(chunks) :
            /\ chunks[k].Index = k - 1
            /\ chunks[k].Total = Len(chunks)

\* three chunks, numbered 0, 1, 2 of 3
C20_Witness ==
    /\ ChunkDone
    /\ Len(chunks) = 3
    /\ <<chunks[1].Index, chunks[2].Index, chunks[3].Index>> = <<0, 1, 2>>
    /\ \A k \in 1..3 : chunks[k].Total = 3

(***************************************************************************)
(* MergeChunkResponses and mergeApproval.  A summary is kept structured:   *)
(* text is a summary passed through verbatim (or a fixed sentence), count  *)
(* and parts are the "**Reviewed <count> file group(s):**" header and the  *)
(* "**Part k:** <summary>" entries of a combined summary.                  *)
(***************************************************************************)
Approvals == {"approve", "comment", "request_changes"}
\* an approval value outside the allowed set, and the missing value
UnknownApproval == "lgtm"
MissingApproval == ""

\* priority[a]; a value that is not in the map counts as comment
ApprovalPriority(a) ==
    CASE a = "approve" -> 0
      [] a = "comment" -> 1
      [] a = "request_changes" -> 2
      [] OTHER -> 1

\* the comparison the wrong way round: the more lenient value wins
mergeApprovalInverted(a, b) ==
    IF ApprovalPriority(a) <= ApprovalPriority(b) THEN a ELSE b

\* func mergeApproval(a, b string) string
mergeApproval(a, b) ==
    IF ApprovalPriority(a) >= ApprovalPriority(b) THEN a ELSE b

NilResponse == [isNil |-> TRUE, Summary |-> "", Comments |-> <<>>, Approval |-> ""]
Response(sum, cs, ap) == [isNil |-> FALSE, Summary |-> sum, Comments |-> cs, Approval |-> ap]
NilResult == [isNil |-> TRUE, Index |-> 0, Response |-> NilResponse]
ChunkResult(i, r) == [isNil |-> FALSE, Index |-> i, Response |-> r]

TextSummary(t) == [text |-> t, count |-> 0, parts |-> <<>>]
\* "**Reviewed " + pluralize(n, "file group") + ":**" and the parts
PartsSummary(n, ps) == [text |-> "", count |-> n, parts |-> ps]

\* the range loop over results; acc holds merged.Comments, merged.Approval,
\* summaries and fileGroupCount
RECURSIVE MergeLoop(_, _, _)
MergeLoop(rs, i, acc) ==
    IF i > Len(rs) THEN acc
    ELSE IF rs[i].isNil \/ rs[i].Response.isNil
      THEN MergeLoop(rs, i + 1, acc)
      ELSE LET resp == rs[i].Response
           IN  MergeLoop(rs, i + 1,
                 [Comments |-> acc.Comments \o resp.Comments,
                  Approval |-> mergeApproval(acc.Approval, resp.Approval),
                  summaries |-> IF resp.Summary # ""
                                  THEN Append(acc.summaries, resp.Summary)
                                  ELSE acc.summaries,
                  fileGroupCount |-> acc.fileGroupCount + 1])

\* the merge of an empty slice left to the loop: no sentinel, the initial
\* approval
MergeChunkResponsesNoSentinel(rs) ==
    LET acc == MergeLoop(rs, 1, [Comments |-> <<>>, Approval |-> "approve",
                                 summaries |-> <<>>, fileGroupCount |-> 0])
    IN  [Summary |-> IF Len(acc.summaries) = 1
                       THEN TextSummary(acc.summaries[1])
                       ELSE IF Len(acc.summaries) > 1
                         THEN PartsSummary(acc.fileGroupCount, acc.summaries)
                         ELSE NoSummary,
         Comments |-> acc.Comments,
         Approval |-> acc.Approval]

\* func MergeChunkResponses(results []*ChunkResult) (*MergedReview, error)
MergeChunkResponses(rs) ==
    IF Len(rs) = 0
      THEN [Summary |-> TextSummary("No chunks to review."),
            Comments |-> <<>>, Approval |-> "comment"]
      ELSE LET acc == MergeLoop(rs, 1, [Comments |-> <<>>, Approval |-> "approve",
                                        summaries |-> <<>>, fileGroupCount |-> 0])
           IN  [Summary |-> IF Len(acc.summaries) = 1
                              THEN TextSummary(acc.summaries[1])
                              ELSE IF Len(acc.summaries) > 1
                                THEN PartsSummary(acc.fileGroupCount, acc.summaries)
                                ELSE NoSummary,
                Comments |-> acc.Comments,
                Approval |-> acc.Approval]

\* the responses and result slots the bounded inputs are built from
MergeResponses ==
    {Response(sum, cs, ap) : sum \in {"", "s"},
                             cs \in {<<>>, <<Comment("a", 1, "x")>>},
                             ap \in Approvals \cup {UnknownApproval, MissingApproval}}
MergeSlots ==
    {NilResult} \cup {ChunkResult(0, r) : r \in MergeResponses \cup {NilResponse}}
\* the slice reviewChunked builds: results[i] has Index i; its summary and
\* its comments are told apart by the chunk they come from
WithIndex(rs) ==
    [k \in 1..Len(rs) |->
        IF rs[k].isNil \/ rs[k].Response.isNil THEN rs[k]
        ELSE [rs[k] EXCEPT !.Index = k - 1,
                           !.Response.Summary =
                               IF @ = "" THEN "" ELSE @ \o ToString(k),
                           !.Response.Comments =
                               [j \in 1..Len(@) |-> [@[j] EXCEPT !.line = k]]]]
\* the same results handed over last chunk first
Reverse(rs) == [k \in 1..Len(rs) |-> rs[Len(rs) + 1 - k]]

\* MergeChunkResponses is exported: its slice is in index order when it
\* comes from reviewChunked, in any order otherwise
InitMerge ==
    /\ mode = "merge"
    /\ \E rs \in SeqsUpTo(MergeSlots, MaxResults), reversed \in BOOLEAN :
          results = IF reversed THEN Reverse(WithIndex(rs)) ELSE WithIndex(rs)
    /\ mpc = "start"
    /\ merged = [Summary |-> NoSummary, Comments |-> <<>>, Approval |-> ""]
    /\ ParseIdle /\ FilterIdle /\ ChunkIdle /\ DispatchIdle /\ ChunkedIdle
    /\ ResponseIdle /\ FirstIdle /\ PoolIdle

MergeDone == mode = "merge" /\ mpc = "done"

MergeCall ==
    /\ mode = "merge" /\ mpc = "start"
    /\ merged' = MergeChunkResponses(results)
    /\ mpc' = "done"
    /\ UNCHANGED <<mode, results>>
    /\ UNCHANGED <<parseVars, filterVars, chunkVars, dispatchVars, chunkedVars, responseVars, firstVars, poolVars>>

NextMerge == MergeCall

SpecMerge == InitMerge /\ [][NextMerge]_vars

\* the positions of the results that are present (neither the result nor
\* its response is nil)
Present(rs) == {k \in 1..Len(rs) : ~rs[k].isNil /\ ~rs[k].Response.isNil}

\* the comments of the results at the positions S, by ascending Index
RECURSIVE CommentsByIndex(_, _)
CommentsByIndex(rs, S) ==
    IF S = {} THEN <<>>
    ELSE LET k == CHOOSE k \in S : \A j \in S : rs[k].Index <= rs[j].Index
         IN  rs[k].Response.Comments \o CommentsByIndex(rs, S \ {k})
\* the comments of the present results in the order of the slice
RECURSIVE CommentsBySlice(_, _)
CommentsBySlice(rs, i) ==
    IF i > Len(rs) THEN <<>>
    ELSE (IF i \in Present(rs) THEN rs[i].Response.Comments ELSE <<>>)
             \o CommentsBySlice(rs, i + 1)
RECURSIVE CountComments(_, _)
CountComments(rs, S) ==
    IF S = {} THEN 0
    ELSE LET k == CHOOSE k \in S : TRUE
         IN  Len(rs[k].Response.Comments) + CountComments(rs, S \ {k})

\* C16: MergeChunkResponses concatenates the comments of the present
\* results by ascending chunk Index, within-chunk order kept, whatever the
\* order of the slice; the merged count is the sum of the per-chunk counts.
C16_CommentsByAscendingIndex ==
    MergeDone =>
        /\ merged.Comments = CommentsByIndex(results, Present(results))
        /\ Len(merged.Comments) = CountComments(results, Present(results))

\* what MergeChunkResponses computes: the comments in the order of the
\* slice, none dropped, none duplicated
MergeConcatenatesInSliceOrder ==
    MergeDone =>
        /\ merged.Comments = CommentsBySlice(results, 1)
        /\ Len(merged.Comments) = CountComments(results, Present(results))

\* C17: an unrecognized or missing per-chunk approval counts as comment:
\* the merged approval is always one of approve, comment, request_changes,
\* it is at least comment when such a value is present, and the
\* unrecognized value itself is never returned.
C17_UnknownApprovalCountsAsComment ==
    MergeDone =>
        /\ merged.Approval \in Approvals
        /\ (\E k \in Present(results) : results[k].Response.Approval \notin Approvals)
               => merged.Approval \in {"comment", "request_changes"}

\* what mergeApproval does with a value it has no priority for: it ranks
\* the value as comment and returns whichever argument ranks at least as
\* high, so the value is returned unless request_changes is present
MergeReturnsHighestRanked ==
    MergeDone /\ Present(results) # {} =>
        /\ \A k \in Present(results) :
               ApprovalPriority(merged.Approval)
                   >= ApprovalPriority(results[k].Response.Approval)
        /\ \/ merged.Approval = "approve"
           \/ \E k \in Present(results) :
                  merged.Approval = results[k].Response.Approval

\* the slice is the one reviewChunked builds: every result present, at the
\* position of its Index
InIndexOrder(rs) ==
    \A k \in 1..Len(rs) : k \in Present(rs) /\ rs[k].Index = k - 1

\* C18: zero chunk results merge to the fixed "nothing to review" summary
\* with approval comment and no comments; a single result with approval
\* approve and no comments merges to approve.
C18_EmptyMergeIsCommentSentinel ==
    MergeDone =>
        /\ Len(results) = 0 =>
               merged = [Summary |-> TextSummary("No chunks to review."),
                         Comments |-> <<>>, Approval |-> "comment"]
        /\ (/\ Len(results) = 1 /\ Present(results) = {1}
            /\ results[1].Response.Approval = "approve"
            /\ results[1].Response.Comments = <<>>)
               => merged.Approval = "approve" /\ merged.Comments = <<>>

\* the merge of no results
C18_Witness ==
    /\ MergeDone
    /\ Len(results) = 0
    /\ merged.Approval = "comment"
    /\ merged.Summary.text = "No chunks to review."
    /\ merged.Comments = <<>>

\* C19: the summary goes by the number of input results: one result gives
\* its summary verbatim; more than one gives the header with the number of
\* file groups and each chunk's summary as "Part k" in chunk order.  (Read
\* for slices with every result present and in index order.)
C19_SummaryByResultCount ==
    (MergeDone /\ InIndexOrder(results)) =>
        /\ Len(results) = 1 =>
               merged.Summary = TextSummary(results[1].Response.Summary)
        /\ Len(results) > 1 =>
               merged.Summary =
                   PartsSummary(Len(results),
                                [k \in 1..Len(results) |-> results[k].Response.Summary])

\* what MergeChunkResponses computes: the summary goes by the number of
\* non-empty summaries, and "Part k" counts those
NonEmptySummaries(rs) ==
    SelectSeq([k \in 1..Len(rs) |-> IF k \in Present(rs) THEN rs[k].Response.Summary ELSE ""],
              LAMBDA t : t # "")
MergeSummaryByNonEmptyCount ==
    (MergeDone /\ Len(results) > 0) =>
        LET ss == NonEmptySummaries(results)
        IN  merged.Summary =
                IF Len(ss) = 0 THEN NoSummary
                ELSE IF Len(ss) = 1 THEN TextSummary(ss[1])
                ELSE PartsSummary(Cardinality(Present(results)), ss)

\* C33: in a combined summary the number of file groups in the header is
\* the number of "Part" entries, and "Part k" carries the summary of the
\* k-th chunk, in chunk order, also when the summary of some chunk is empty.
C33_PartsMatchHeaderCount ==
    (MergeDone /\ InIndexOrder(results) /\ merged.Summary.parts # <<>>) =>
        /\ merged.Summary.count = Len(merged.Summary.parts)
        /\ \A k \in 1..Len(merged.Summary.parts) :
               merged.Summary.parts[k] = results[k].Response.Summary

\* what MergeChunkResponses computes: the header counts the present
\* results, the parts are the non-empty summaries, so the two agree exactly
\* when no present result has an empty summary
PartsMatchHeaderWithoutEmptySummary ==
    (MergeDone /\ InIndexOrder(results) /\ merged.Summary.parts # <<>>
        /\ \A k \in 1..Len(results) : results[k].Response.Summary # "") =>
        /\ merged.Summary.count = Len(merged.Summary.parts)
        /\ \A k \in 1..Len(merged.Summary.parts) :
               merged.Summary.parts[k] = results[k].Response.Summary
\* a combined summary of three chunks whose second summary is empty
CombinedSummaryWithEmptyPart ==
    /\ MergeDone /\ InIndexOrder(results) /\ Len(results) = 3
    /\ results[2].Response.Summary = ""
    /\ merged.Summary.count = 3
    /\ Len(merged.Summary.parts) = 2

\* the results that are present, in the order of the slice
PresentOnly(rs) == SelectSeq(rs, LAMBDA r : ~r.isNil /\ ~r.Response.isNil)

\* C34: nil results and results with a nil response are skipped without
\* error: the merged summary, comments and approval are those of the merge
\* of the present entries alone, also when no entry is present.
C34_SparseMergeIsMergeOfPresent ==
    MergeDone => merged = MergeChunkResponses(PresentOnly(results))

\* what MergeChunkResponses computes: the absent entries are skipped as
\* long as one entry is present; a non-empty slice with no entry present
\* merges to the empty summary with approval approve, not to the result
\* of merging no entries
SparseMergeWithOnePresent ==
    (MergeDone /\ Present(results) # {}) =>
        merged = MergeChunkResponses(PresentOnly(results))
AllAbsentMergesToApprove ==
    (MergeDone /\ Len(results) > 0 /\ Present(results) = {}) =>
        merged = [Summary |-> NoSummary, Comments |-> <<>>, Approval |-> "approve"]
\* a slice of absent entries only has been merged
AllAbsentMerged ==
    MergeDone /\ Len(results) = 2 /\ Present(results) = {}

\* the approvals of the results that are present
PresentApprovals(rs) ==
    {rs[k].Response.Approval :
        k \in {j \in 1..Len(rs) : ~rs[j].isNil /\ ~rs[j].Response.isNil}}
\* the maximum under request_changes > comment > approve
Strictest(S) ==
    IF "request_changes" \in S THEN "request_changes"
    ELSE IF "comment" \in S THEN "comment" ELSE "approve"

\* C6: for per-chunk approvals among approve, comment, request_changes the
\* merged approval of one or more results is the maximum under
\* request_changes > comment > approve of the approvals present, whatever
\* their order; mergeApproval is commutative, associative and idempotent on
\* these values.
C6_MergedApprovalIsStrictest ==
    /\ (MergeDone /\ Len(results) > 0 /\ PresentApprovals(results) \subseteq Approvals)
           => merged.Approval = Strictest(PresentApprovals(results))
    /\ \A a \in Approvals, b \in Approvals :
           /\ mergeApproval(a, b) = mergeApproval(b, a)
           /\ mergeApproval(a, a) = a
           /\ \A c \in Approvals :
                  mergeApproval(mergeApproval(a, b), c) = mergeApproval(a, mergeApproval(b, c))

\* approve, comment, approve merge to comment
C6_Witness ==
    /\ MergeDone
    /\ Len(results) = 3
    /\ \A k \in 1..3 : ~results[k].isNil /\ ~results[k].Response.isNil
    /\ results[1].Response.Approval = "approve"
    /\ results[2].Response.Approval = "comment"
    /\ results[3].Response.Approval = "approve"
    /\ merged.Approval = "comment"

(***************************************************************************)
(* One dispatch: reviewChunkWithContext derives timeoutCtx from the        *)
(* caller's context once, then runs retryWithBackoff(timeoutCtx, fn),      *)
(* where fn is the engine call under timeoutCtx.  Time is counted in units *)
(* of RetryBaseDelay; the engine takes an arbitrary time to answer, so the *)
(* deadline of timeoutCtx may pass at any moment of a call or of a wait.   *)
(* A select returns as soon as one of its cases is ready.                  *)
(***************************************************************************)
MaxRetries == 3
RetryBaseDelay == 1

\* what an invocation of fn returns: a message (with text ParseResponse
\* accepts, with no text block, with text that is not JSON, with an
\* approval outside the allowed values, with a comment that lacks its path,
\* line or body or has an unknown severity), an error the engine or the
\* network reports (429/5xx/connection/timeout, or another one), or the
\* error of timeoutCtx
Messages == {"valid", "notext", "malformed", "badapproval", "badcomment"}
EngineErrors == {"transient", "fatal"}
CtxErrors == {"canceled", "deadline"}

\* func ParseResponse: the error for the text of message m ("none": nil)
ParseResponse(m) ==
    CASE m = "malformed" -> "json"
      [] m = "badapproval" -> "approval"
      [] m = "badcomment" -> "comment"
      [] OTHER -> "none"

\* a classification that takes every engine error for a transient one
isRetryableErrorAny(e) == e \in {"transient", "deadline", "fatal"}

\* func isRetryableError(err error) bool
isRetryableError(e) == e \in {"transient", "deadline"}

RECURSIVE Pow2(_)
Pow2(n) == IF n = 0 THEN 1 ELSE 2 * Pow2(n - 1)

\* a delay that grows by one base delay per attempt instead of doubling
BackoffDelayLinear(a) == RetryBaseDelay * (a + 1)

\* delay := RetryBaseDelay * time.Duration(1<<attempt)
BackoffDelay(a) == RetryBaseDelay * Pow2(a)

\* <-ctx.Done() is ready
CtxDone == ctxErr # "none"

InitDispatch ==
    /\ mode = "dispatch"
    /\ dpc = "start"
    /\ attempt = 0 /\ calls = 0 /\ outcomes = <<>>
    /\ waits = <<>> /\ slept = <<>> /\ waited = 0
    /\ parentDone \in BOOLEAN
    /\ ctxErr = IF parentDone THEN "canceled" ELSE "none"
    /\ derr = NoError
    /\ ParseIdle /\ FilterIdle /\ ChunkIdle /\ MergeIdle /\ ChunkedIdle
    /\ ResponseIdle /\ FirstIdle /\ PoolIdle

DispatchFrame ==
    UNCHANGED <<mode, parseVars, filterVars, chunkVars, mergeVars, chunkedVars, responseVars, firstVars, poolVars>>

\* the caller cancels its context: timeoutCtx is done too
ParentCancel ==
    /\ mode = "dispatch" /\ dpc \in {"start", "call", "backoff"}
    /\ ~parentDone
    /\ parentDone' = TRUE
    /\ ctxErr' = IF ctxErr = "none" THEN "canceled" ELSE ctxErr
    /\ UNCHANGED <<dpc, attempt, calls, outcomes, waits, slept, waited, derr>>
    /\ DispatchFrame

\* ClaudeAPITimeout has passed since context.WithTimeout
DeadlineExpires ==
    /\ mode = "dispatch" /\ dpc \in {"call", "backoff"}
    /\ ctxErr = "none"
    /\ ctxErr' = "deadline"
    /\ UNCHANGED <<dpc, attempt, calls, outcomes, waits, slept, waited,
                   parentDone, derr>>
    /\ DispatchFrame

\* attempt := 0; result, lastErr = fn()
DispatchStart ==
    /\ mode = "dispatch" /\ dpc = "start"
    /\ dpc' = "call"
    /\ calls' = calls + 1
    /\ UNCHANGED <<attempt, outcomes, waits, slept, waited, ctxErr, parentDone, derr>>
    /\ DispatchFrame

\* fn returns a message: retryWithBackoff returns it, and the dispatch
\* extracts the text, parses it and filters the comments
CallReturnsMessage ==
    /\ mode = "dispatch" /\ dpc = "call"
    /\ \E m \in Messages :
          /\ outcomes' = Append(outcomes, m)
          /\ derr' = CASE m = "valid" -> NoError
                       [] m = "notext" -> [kind |-> "notext", wraps |-> "none"]
                       [] OTHER -> [kind |-> "parse", wraps |-> ParseResponse(m)]
    /\ dpc' = "done"
    /\ UNCHANGED <<attempt, calls, waits, slept, waited, ctxErr, parentDone>>
    /\ DispatchFrame

\* fn returns an error: not retryable, retryable with retries left (enter
\* the select), or retryable on the last attempt (leave the loop)
CallReturnsError ==
    /\ mode = "dispatch" /\ dpc = "call"
    /\ \E e \in EngineErrors \cup (IF CtxDone THEN {ctxErr} ELSE {}) :
          /\ outcomes' = Append(outcomes, e)
          /\ IF ~isRetryableError(e)
               THEN /\ dpc' = "done"
                    /\ derr' = [kind |-> "engine", wraps |-> e]
                    /\ UNCHANGED <<waits, waited>>
               ELSE IF attempt < MaxRetries
                 THEN /\ dpc' = "backoff"
                      /\ waits' = Append(waits, BackoffDelay(attempt))
                      /\ waited' = 0
                      /\ UNCHANGED derr
                 ELSE /\ dpc' = "done"
                      /\ derr' = [kind |-> "maxretries", wraps |-> e]
                      /\ UNCHANGED <<waits, waited>>
    /\ UNCHANGED <<attempt, calls, slept, ctxErr, parentDone>>
    /\ DispatchFrame

\* a wait that goes on although the context is done
BackoffTickIgnoresCtx ==
    /\ mode = "dispatch" /\ dpc = "backoff"
    /\ waited < waits[Len(waits)]
    /\ waited' = waited + 1
    /\ UNCHANGED <<dpc, attempt, calls, outcomes, waits, slept, ctxErr,
                   parentDone, derr>>
    /\ DispatchFrame

\* time passes in the select: neither case is ready
BackoffTick ==
    /\ mode = "dispatch" /\ dpc = "backoff"
    /\ ~CtxDone
    /\ waited < waits[Len(waits)]
    /\ waited' = waited + 1
    /\ UNCHANGED <<dpc, attempt, calls, outcomes, waits, slept, ctxErr,
                   parentDone, derr>>
    /\ DispatchFrame

\* case <-ctx.Done(): return result, ctx.Err()
BackoffCancelled ==
    /\ mode = "dispatch" /\ dpc = "backoff"
    /\ CtxDone
    /\ dpc' = "done"
    /\ derr' = [kind |-> "ctx", wraps |-> ctxErr]
    /\ slept' = Append(slept, waited)
    /\ UNCHANGED <<attempt, calls, outcomes, waits, waited, ctxErr, parentDone>>
    /\ DispatchFrame

\* case <-time.After(delay): attempt++; result, lastErr = fn()
BackoffElapsed ==
    /\ mode = "dispatch" /\ dpc = "backoff"
    /\ waited = waits[Len(waits)]
    /\ slept' = Append(slept, waited)
    /\ attempt' = attempt + 1
    /\ calls' = calls + 1
    /\ dpc' = "call"
    /\ UNCHANGED <<outcomes, waits, waited, ctxErr, parentDone, derr>>
    /\ DispatchFrame

NextDispatch ==
    \/ ParentCancel \/ DeadlineExpires \/ DispatchStart
    \/ CallReturnsMessage \/ CallReturnsError
    \/ BackoffTick \/ BackoffCancelled \/ BackoffElapsed

SpecDispatch == InitDispatch /\ [][NextDispatch]_vars

DispatchDone == mode = "dispatch" /\ dpc = "done"

\* C8: retryWithBackoff invokes the operation again only after a transient
\* error and at most MaxRetries times after the first attempt; the wait
\* before the k-th retry is RetryBaseDelay * 2^(k-1), waited in full; when
\* the last allowed attempt fails transiently it returns "max retries
\* exceeded" wrapping that error, without another wait.
C8_BoundedRetriesWithDoublingDelay ==
    mode = "dispatch" =>
        /\ calls <= MaxRetries + 1
        /\ \A k \in 1..(calls - 1) :
              /\ k <= Len(outcomes) /\ isRetryableError(outcomes[k])
              /\ k <= Len(slept) /\ slept[k] = RetryBaseDelay * Pow2(k - 1)
        /\ \A k \in 1..Len(waits) : waits[k] = RetryBaseDelay * Pow2(k - 1)
        /\ Len(waits) <= MaxRetries
        /\ (dpc = "done" /\ Len(outcomes) = MaxRetries + 1
              /\ isRetryableError(outcomes[MaxRetries + 1]))
             => /\ derr = [kind |-> "maxretries", wraps |-> outcomes[MaxRetries + 1]]
                /\ Len(waits) = MaxRetries
                /\ Len(slept) = MaxRetries

\* four transient failures: three retries after waits of 1, 2 and 4
C8_Witness ==
    /\ DispatchDone
    /\ calls = MaxRetries + 1
    /\ outcomes = <<"transient", "transient", "transient", "transient">>
    /\ slept = <<1, 2, 4>>
    /\ derr.kind = "maxretries"

\* C9: an attempt that fails by exceeding its deadline is a transient
\* failure, retried with backoff up to the retry ceiling: unless the caller
\* cancels, the dispatch gives up on a deadline failure only when the last
\* allowed attempt has been made.
C9_DeadlineFailureIsRetried ==
    (/\ DispatchDone
     /\ ~parentDone
     /\ outcomes # <<>>
     /\ outcomes[Len(outcomes)] = "deadline")
        => calls = MaxRetries + 1

\* the failures that are not transient: an engine error isRetryableError
\* rejects, a message without text, a text ParseResponse rejects
NonTransient == {"fatal", "notext", "malformed", "badapproval", "badcomment"}

\* C14: a non-transient failure of a dispatch (a non-retryable engine
\* error, a response without text, malformed JSON, an invalid enum value, a
\* missing comment field) ends the dispatch with an error after that
\* attempt: it is the last attempt, no retry wait follows it and the engine
\* is not invoked again.
C14_NonTransientFailureIsNotRetried ==
    mode = "dispatch" =>
        \A k \in 1..Len(outcomes) :
            outcomes[k] \in NonTransient =>
                /\ k = Len(outcomes)
                /\ calls = k
                /\ Len(waits) = k - 1
                /\ dpc = "done"
                /\ derr # NoError
                /\ derr.kind \in {"engine", "notext", "parse"}

\* a transient failure is retried, then a response with an invalid approval
\* value ends the dispatch
C14_Witness ==
    /\ DispatchDone
    /\ outcomes = <<"transient", "badapproval">>
    /\ calls = 2
    /\ waits = <<1>>
    /\ derr = [kind |-> "parse", wraps |-> "approval"]

\* C10: while retryWithBackoff waits out a retry delay that has not elapsed
\* and the context is done, the only thing it does is return the context's
\* error: no more waiting, no further invocation of the operation.
C10_CancelledWaitReturnsAtOnce ==
    [][(mode = "dispatch" /\ dpc = "backoff" /\ CtxDone /\ waited < waits[Len(waits)])
         => /\ calls' = calls
            /\ waited' = waited
            /\ \/ dpc' = "backoff"
               \/ dpc' = "done" /\ derr' = [kind |-> "ctx", wraps |-> ctxErr]]_vars

\* the caller cancels one time unit into the wait of two before the second
\* retry, and the dispatch returns the context's error after two calls
C10_Witness ==
    /\ DispatchDone
    /\ parentDone
    /\ derr = [kind |-> "ctx", wraps |-> "canceled"]
    /\ waits = <<1, 2>>
    /\ slept = <<1, 1>>
    /\ calls = 2

(***************************************************************************)
(* reviewChunked: one goroutine per chunk under errgroup.WithContext and a *)
(* weighted semaphore of MaxConcurrentChunks slots.  A task is followed    *)
(* through sem.Acquire, the engine calls and retry waits of its dispatch   *)
(* (the attempt count of a dispatch is the subject of the dispatch         *)
(* specification above), and its return, which releases the slot (defer)   *)
(* and hands the error, if any, to the errgroup.  gctx is done once the    *)
(* caller's context is done or the errgroup holds an error.  A task is in  *)
(* "call" from the return of sem.Acquire on (the context fetch and the     *)
(* prompt are part of it) and again after each retry wait, until the       *)
(* engine call returns; an engine call under a context that is done        *)
(* returns that context's error.                                           *)
(***************************************************************************)
MaxConcurrentChunks == 5

NoGroupError == [task |-> 0, labelled |-> FALSE]
\* fmt.Errorf("chunk %d/%d: %w", i+1, len(chunks), err) carries the chunk;
\* the error of sem.Acquire is returned as it is
GroupError(i, l) == [task |-> i, labelled |-> l]

\* <-gctx.Done() is ready
GctxDone == callerDone \/ gerr # NoGroupError

\* the response the engine gives for chunk i: a summary that names the
\* chunk and one comment, on line i
ApprovalOf(i) ==
    IF i % 3 = 1 THEN "approve" ELSE IF i % 3 = 2 THEN "comment" ELSE "request_changes"
SummaryOf(i) == "summary " \o ToString(i)
ResponseOf(i) == Response(SummaryOf(i), <<Comment("a", i, "x")>>, ApprovalOf(i))

InitChunked ==
    /\ mode = "chunked"
    /\ nchunks \in 0..MaxChunks
    /\ gpc = "start"
    /\ tpc = <<>>
    /\ semCur = 0
    /\ gresults = <<>>
    /\ gerr = NoGroupError
    /\ callerDone = FALSE
    /\ freturn = NoReturn
    /\ outOfOrder = FALSE
    /\ ParseIdle /\ FilterIdle /\ ChunkIdle /\ MergeIdle /\ DispatchIdle
    /\ ResponseIdle /\ FirstIdle /\ PoolIdle

ChunkedFrame ==
    UNCHANGED <<mode, parseVars, filterVars, chunkVars, mergeVars, dispatchVars, responseVars, firstVars, poolVars>>

Tasks == 1..nchunks
InFlight == {i \in Tasks : tpc[i] \in {"call", "backoff"}}
Finished(i) == tpc[i] \in {"ok", "err", "ctxerr"}

\* the caller's context is cancelled
CallerCancel ==
    /\ mode = "chunked" /\ gpc \in {"start", "fanout"}
    /\ ~callerDone
    /\ callerDone' = TRUE
    /\ UNCHANGED <<nchunks, gpc, tpc, semCur, gresults, gerr, freturn>>
    /\ UNCHANGED outOfOrder
    /\ ChunkedFrame

\* len(chunks) == 0: the fixed response, no task is started
ChunkedNoChunks ==
    /\ mode = "chunked" /\ gpc = "start"
    /\ nchunks = 0
    /\ freturn' = [review |-> [Summary |-> TextSummary("No content to review."),
                               Comments |-> <<>>, Approval |-> "comment"],
                   hasReview |-> TRUE, err |-> NoGroupError]
    /\ gpc' = "returned"
    /\ UNCHANGED <<nchunks, tpc, semCur, gresults, gerr, callerDone>>
    /\ UNCHANGED outOfOrder
    /\ ChunkedFrame

\* results := make([]*ChunkResult, len(chunks)); g.Go(...) for every chunk
ChunkedFanOut ==
    /\ mode = "chunked" /\ gpc = "start"
    /\ nchunks > 0
    /\ tpc' = [i \in 1..nchunks |-> "acquire"]
    /\ gresults' = [i \in 1..nchunks |-> NilResult]
    /\ gpc' = "fanout"
    /\ UNCHANGED <<nchunks, semCur, gerr, callerDone, freturn>>
    /\ UNCHANGED outOfOrder
    /\ ChunkedFrame

\* sem.Acquire without the limit of MaxConcurrentChunks
TaskAcquireUnbounded(i) ==
    /\ mode = "chunked" /\ gpc = "fanout"
    /\ tpc[i] = "acquire"
    /\ semCur' = semCur + 1
    /\ tpc' = [tpc EXCEPT ![i] = "call"]
    /\ UNCHANGED <<nchunks, gpc, gresults, gerr, callerDone, freturn>>
    /\ UNCHANGED outOfOrder
    /\ ChunkedFrame

\* sem.Acquire that hands out a free slot although gctx is done
TaskAcquireIgnoresCtx(i) ==
    /\ mode = "chunked" /\ gpc = "fanout"
    /\ tpc[i] = "acquire"
    /\ semCur < MaxConcurrentChunks
    /\ semCur' = semCur + 1
    /\ tpc' = [tpc EXCEPT ![i] = "call"]
    /\ UNCHANGED <<nchunks, gpc, gresults, gerr, callerDone, freturn>>
    /\ UNCHANGED outOfOrder
    /\ ChunkedFrame

\* sem.Acquire(gctx, 1) returns nil: the task holds a slot and goes on to
\* the first engine call of its dispatch.  Acquire of x/sync v0.16.0 (the
\* version go.mod requires) fails when the context is done, both before it
\* looks for a free slot and after a wait ends with a slot handed over (the
\* slot is given back), so it returns nil only while gctx is not done; which
\* waiter gets a freed slot is left open
TaskAcquire(i) ==
    /\ mode = "chunked" /\ gpc = "fanout"
    /\ tpc[i] = "acquire"
    /\ ~GctxDone
    /\ semCur < MaxConcurrentChunks
    /\ semCur' = semCur + 1
    /\ tpc' = [tpc EXCEPT ![i] = "call"]
    /\ UNCHANGED <<nchunks, gpc, gresults, gerr, callerDone, freturn>>
    /\ UNCHANGED outOfOrder
    /\ ChunkedFrame

\* sem.Acquire(gctx, 1) returns gctx.Err(): the task returns it as it is
TaskAcquireCancelled(i) ==
    /\ mode = "chunked" /\ gpc = "fanout"
    /\ tpc[i] = "acquire"
    /\ GctxDone
    /\ tpc' = [tpc EXCEPT ![i] = "ctxerr"]
    /\ gerr' = IF gerr = NoGroupError THEN GroupError(i, FALSE) ELSE gerr
    /\ UNCHANGED <<nchunks, gpc, semCur, gresults, callerDone, freturn>>
    /\ UNCHANGED outOfOrder
    /\ ChunkedFrame

\* results kept in completion order: the result goes to the first free
\* position instead of position i
TaskSucceedsInCompletionOrder(i) ==
    /\ mode = "chunked" /\ gpc = "fanout"
    /\ tpc[i] = "call"
    /\ LET free == CHOOSE k \in 1..nchunks :
                       /\ gresults[k].isNil
                       /\ \A j \in 1..(k - 1) : ~gresults[j].isNil
       IN  gresults' = [gresults EXCEPT ![free] = ChunkResult(i - 1, ResponseOf(i))]
    /\ semCur' = semCur - 1
    /\ tpc' = [tpc EXCEPT ![i] = "ok"]
    /\ outOfOrder' = (outOfOrder \/ \E j \in 1..(i - 1) : tpc[j] # "ok")
    /\ UNCHANGED <<nchunks, gpc, gerr, callerDone, freturn>>
    /\ ChunkedFrame

\* the dispatch succeeds: results[i] is written, the slot released
TaskSucceeds(i) ==
    /\ mode = "chunked" /\ gpc = "fanout"
    /\ tpc[i] = "call"
    /\ gresults' = [gresults EXCEPT ![i] = ChunkResult(i - 1, ResponseOf(i))]
    /\ semCur' = semCur - 1
    /\ tpc' = [tpc EXCEPT ![i] = "ok"]
    /\ outOfOrder' = (outOfOrder \/ \E j \in 1..(i - 1) : tpc[j] # "ok")
    /\ UNCHANGED <<nchunks, gpc, gerr, callerDone, freturn>>
    /\ ChunkedFrame

\* an engine call fails with a transient error and retries are left: the
\* dispatch waits in the select of retryWithBackoff
TaskCallTransient(i) ==
    /\ mode = "chunked" /\ gpc = "fanout"
    /\ tpc[i] = "call"
    /\ tpc' = [tpc EXCEPT ![i] = "backoff"]
    /\ UNCHANGED <<nchunks, gpc, semCur, gresults, gerr, callerDone, freturn>>
    /\ UNCHANGED outOfOrder
    /\ ChunkedFrame

\* a retry wait that ends with the timer although gctx is done
TaskBackoffElapsedIgnoresCtx(i) ==
    /\ mode = "chunked" /\ gpc = "fanout"
    /\ tpc[i] = "backoff"
    /\ tpc' = [tpc EXCEPT ![i] = "call"]
    /\ UNCHANGED <<nchunks, gpc, semCur, gresults, gerr, callerDone, freturn>>
    /\ UNCHANGED outOfOrder
    /\ ChunkedFrame

\* the wait ends with the timer: the next engine call
TaskBackoffElapsed(i) ==
    /\ mode = "chunked" /\ gpc = "fanout"
    /\ tpc[i] = "backoff"
    /\ ~GctxDone
    /\ tpc' = [tpc EXCEPT ![i] = "call"]
    /\ UNCHANGED <<nchunks, gpc, semCur, gresults, gerr, callerDone, freturn>>
    /\ UNCHANGED outOfOrder
    /\ ChunkedFrame

\* the dispatch fails: a non-retryable engine error, retries exhausted, a
\* message without text or with text that does not parse, or the error of
\* its context (gctx done, or its own deadline passed) from a call or from
\* the wait; the task returns "chunk i/n: ..." and releases the slot
TaskFails(i) ==
    /\ mode = "chunked" /\ gpc = "fanout"
    /\ tpc[i] \in {"call", "backoff"}
    /\ semCur' = semCur - 1
    /\ tpc' = [tpc EXCEPT ![i] = "err"]
    /\ gerr' = IF gerr = NoGroupError THEN GroupError(i, TRUE) ELSE gerr
    /\ UNCHANGED <<nchunks, gpc, gresults, callerDone, freturn>>
    /\ UNCHANGED outOfOrder
    /\ ChunkedFrame

\* g.Wait() handing back a review merged from the results at hand
ChunkedWaitIgnoresError ==
    /\ mode = "chunked" /\ gpc = "fanout"
    /\ \A i \in Tasks : Finished(i)
    /\ gerr # NoGroupError
    /\ freturn' = [review |-> MergeChunkResponses(gresults),
                   hasReview |-> TRUE, err |-> NoGroupError]
    /\ gpc' = "returned"
    /\ UNCHANGED <<nchunks, tpc, semCur, gresults, gerr, callerDone>>
    /\ UNCHANGED outOfOrder
    /\ ChunkedFrame

\* if err := g.Wait(); err != nil { return nil, nil, err }
ChunkedWaitFails ==
    /\ mode = "chunked" /\ gpc = "fanout"
    /\ \A i \in Tasks : Finished(i)
    /\ gerr # NoGroupError
    /\ freturn' = [NoReturn EXCEPT !.err = gerr]
    /\ gpc' = "returned"
    /\ UNCHANGED <<nchunks, tpc, semCur, gresults, gerr, callerDone>>
    /\ UNCHANGED outOfOrder
    /\ ChunkedFrame

\* g.Wait() returns nil: MergeChunkResponses(results)
ChunkedWaitMerges ==
    /\ mode = "chunked" /\ gpc = "fanout"
    /\ \A i \in Tasks : Finished(i)
    /\ gerr = NoGroupError
    /\ freturn' = [review |-> MergeChunkResponses(gresults),
                   hasReview |-> TRUE, err |-> NoGroupError]
    /\ gpc' = "returned"
    /\ UNCHANGED <<nchunks, tpc, semCur, gresults, gerr, callerDone>>
    /\ UNCHANGED outOfOrder
    /\ ChunkedFrame

NextChunked ==
    \/ CallerCancel \/ ChunkedNoChunks \/ ChunkedFanOut
    \/ \E i \in Tasks :
          \/ TaskAcquire(i) \/ TaskAcquireCancelled(i)
          \/ TaskSucceeds(i) \/ TaskCallTransient(i)
          \/ TaskBackoffElapsed(i) \/ TaskFails(i)
    \/ ChunkedWaitFails \/ ChunkedWaitMerges

SpecChunked == InitChunked /\ [][NextChunked]_vars

\* the steps of chunk task i, and those of the goroutine that called
\* reviewChunked
TaskStep(i) ==
    /\ i \in Tasks
    /\ \/ TaskAcquire(i) \/ TaskAcquireCancelled(i)
       \/ TaskSucceeds(i) \/ TaskCallTransient(i)
       \/ TaskBackoffElapsed(i) \/ TaskFails(i)
CallerStep ==
    ChunkedNoChunks \/ ChunkedFanOut \/ ChunkedWaitFails \/ ChunkedWaitMerges

ChunkedReturned == mode = "chunked" /\ gpc = "returned"

\* C4: reviewChunked returns either a review merged from the results of
\* all N chunks, or an error and no review; never a review merged from
\* only some of the chunks.
C4_AllOrNothing ==
    ChunkedReturned =>
        \/ /\ freturn.hasReview
           /\ freturn.err = NoGroupError
           /\ \A i \in Tasks :
                 /\ tpc[i] = "ok"
                 /\ gresults[i] = ChunkResult(i - 1, ResponseOf(i))
                 /\ \E j \in 1..Len(freturn.review.Comments) :
                        freturn.review.Comments[j] = Comment("a", i, "x")
           /\ Len(freturn.review.Comments) = nchunks
        \/ /\ ~freturn.hasReview
           /\ freturn.err # NoGroupError

\* a chunk fails after other chunks have completed: the error is returned
\* and the completed results are not merged
C4_Witness ==
    /\ ChunkedReturned
    /\ nchunks >= 3
    /\ \E i \in Tasks : tpc[i] = "ok" /\ ~gresults[i].isNil
    /\ \E i \in Tasks : tpc[i] = "err"
    /\ ~freturn.hasReview
    /\ freturn.err.labelled

\* C5: at most MaxConcurrentChunks chunk tasks hold a semaphore slot, so at
\* most that many engine calls are in flight at once, however many chunks
\* there are.
C5_AtMostMaxConcurrentInFlight ==
    (mode = "chunked" /\ gpc = "fanout") =>
        /\ Cardinality(InFlight) <= MaxConcurrentChunks
        /\ Cardinality({i \in Tasks : tpc[i] = "call"}) <= MaxConcurrentChunks
        /\ semCur = Cardinality(InFlight)

\* more chunks than slots: every slot taken by an engine call in flight,
\* another task waiting for a slot
C5_Witness ==
    /\ mode = "chunked" /\ gpc = "fanout"
    /\ nchunks > MaxConcurrentChunks
    /\ Cardinality({i \in Tasks : tpc[i] = "call"}) = MaxConcurrentChunks
    /\ \E i \in Tasks : tpc[i] = "acquire"

\* a task that has not got past sem.Acquire while gctx is done
WaitsCancelled(i) ==
    /\ mode = "chunked" /\ gpc = "fanout"
    /\ i \in Tasks
    /\ tpc[i] = "acquire"
    /\ GctxDone

\* C11: a chunk task waiting in sem.Acquire when gctx is done (the caller
\* cancelled, or another chunk failed) never gets a slot and never calls the
\* engine: returning the context's error is a step it can take and the only
\* one it takes, and once returned it stays so, with no result written.
C11_WaitingTaskReturnsCtxError ==
    /\ [][\A i \in 1..MaxChunks :
            /\ WaitsCancelled(i) =>
                  /\ tpc'[i] \in {"acquire", "ctxerr"}
                  /\ tpc'[i] = "ctxerr" => semCur' = semCur
            /\ (mode = "chunked" /\ i \in Tasks /\ gpc = "fanout" /\ tpc[i] = "ctxerr")
                  => (tpc'[i] = "ctxerr" /\ gresults'[i] = NilResult)]_vars
    /\ [](\A i \in 1..MaxChunks :
            WaitsCancelled(i) =>
                /\ ENABLED TaskAcquireCancelled(i)
                /\ ~ENABLED TaskAcquire(i))

\* more chunks than slots: a chunk fails while a task waits for a slot, and
\* the waiting task returns the context's error although a slot is free
C11_Witness ==
    /\ mode = "chunked" /\ gpc = "fanout"
    /\ nchunks > MaxConcurrentChunks
    /\ ~callerDone
    /\ gerr.labelled
    /\ semCur = MaxConcurrentChunks - 1
    /\ Cardinality(InFlight) = MaxConcurrentChunks - 1
    /\ \E i \in Tasks : tpc[i] = "ctxerr" /\ gresults[i] = NilResult

\* what is left to do before reviewChunked returns: an engine call in
\* flight may still end in a retry wait, a task that waits (for a slot or
\* for a retry) has its return left, the caller has g.Wait left
WorkLeft(t, g) ==
    2 * Cardinality({i \in DOMAIN t : t[i] = "call"})
      + Cardinality({i \in DOMAIN t : t[i] \in {"acquire", "backoff"}})
      + (IF g = "fanout" THEN 1 ELSE 0)

C13_ErrorCarriesChunkIdentity ==
    (ChunkedReturned /\ freturn.err # NoGroupError) =>
        /\ freturn.err = gerr
        /\ freturn.err.task \in Tasks
        /\ freturn.err.labelled

\* C15: whatever order the chunk tasks complete in, the review
\* reviewChunked returns lists the chunks' comments and summaries in
\* ascending chunk index order.
C15_MergedInIndexOrder ==
    (ChunkedReturned /\ freturn.hasReview /\ nchunks > 0) =>
        /\ freturn.review.Comments = [i \in 1..nchunks |-> Comment("a", i, "x")]
        /\ freturn.review.Summary =
               IF nchunks = 1 THEN TextSummary(SummaryOf(1))
               ELSE PartsSummary(nchunks, [i \in 1..nchunks |-> SummaryOf(i)])

\* a chunk completed before a chunk of lower index, and the review lists
\* the lower index first
C15_Witness ==
    /\ ChunkedReturned
    /\ freturn.hasReview
    /\ outOfOrder
    /\ nchunks >= 3
    /\ freturn.review.Comments[1] = Comment("a", 1, "x")
    /\ freturn.review.Comments[nchunks] = Comment("a", nchunks, "x")
    /\ freturn.review.Summary.parts[1] = SummaryOf(1)

\* C35: each slot results[i] is written at most once and only by chunk
\* task i, when its dispatch has succeeded; the merge reads results only
\* after every chunk task has returned, and no slot changes after that.
C35_SlotWrittenOnceByItsTask ==
    /\ [][mode = "chunked" =>
            /\ \A k \in 1..MaxChunks :
                  (k \in Tasks /\ gpc = "fanout" /\ gresults'[k] # gresults[k]) =>
                      /\ gresults[k] = NilResult
                      /\ tpc[k] = "call" /\ tpc'[k] = "ok"
                      /\ gresults'[k] = ChunkResult(k - 1, ResponseOf(k))
                      /\ \A j \in Tasks \ {k} :
                             tpc'[j] = tpc[j] /\ gresults'[j] = gresults[j]
            /\ (gpc = "fanout" /\ gpc' = "returned" /\ freturn'.hasReview) =>
                  /\ \A i \in Tasks : Finished(i)
                  /\ gresults' = gresults
                  /\ freturn'.review = MergeChunkResponses(gresults)
            /\ gpc = "returned" => gresults' = gresults]_vars
    /\ [](mode = "chunked" /\ gpc \in {"fanout", "returned"} =>
            \A i \in Tasks : gresults[i] # NilResult => tpc[i] = "ok")

\* two chunks, the second completed first; each slot holds the result of
\* its own task and the review is merged from both
C35_Witness ==
    /\ ChunkedReturned
    /\ nchunks = 2
    /\ outOfOrder
    /\ freturn.hasReview
    /\ \A i \in Tasks : gresults[i] = ChunkResult(i - 1, ResponseOf(i))
    /\ Len(freturn.review.Comments) = 2

(***************************************************************************)
(* reviewChunked once more, with the attempt of every dispatch counted as  *)
(* the loop of retryWithBackoff counts it.  The chunk tasks run the same   *)
(* code and differ in nothing the semaphore or the retry loop looks at, so *)
(* the state holds, for each position of that code, the number of tasks    *)
(* that are there.  A position is where the task is ("acquire": in         *)
(* sem.Acquire; "call": from the return of sem.Acquire, or of a retry      *)
(* wait, to the return of the engine call; "backoff": in the select of     *)
(* retryWithBackoff; "ok", "err", "ctxerr": returned nil, returned the     *)
(* error of its dispatch, returned the error of sem.Acquire) and the value *)
(* of attempt.  Every engine call returns.                                 *)
(***************************************************************************)
TaskAt(at, a) == [at |-> at, attempt |-> a]
Waiting == TaskAt("acquire", 0)
InCall(a) == TaskAt("call", a)
InBackoff(a) == TaskAt("backoff", a)
ReturnedOk == TaskAt("ok", 0)
ReturnedErr == TaskAt("err", 0)
ReturnedCtxErr == TaskAt("ctxerr", 0)
HoldsSlot == {InCall(a) : a \in 0..MaxRetries} \cup {InBackoff(a) : a \in 0..(MaxRetries - 1)}
HasReturned == {ReturnedOk, ReturnedErr, ReturnedCtxErr}
TaskPositions == {Waiting} \cup HoldsSlot \cup HasReturned

RECURSIVE CountAt(_, _)
CountAt(b, S) ==
    IF S = {} THEN 0
    ELSE LET q == CHOOSE q \in S : TRUE IN b[q] + CountAt(b, S \ {q})
\* one task goes from position from to position to
Move(b, from, to) == [b EXCEPT ![from] = @ - 1, ![to] = @ + 1]

\* <-gctx.Done() is ready
PoolCtxDone == poolCallerDone \/ poolErr

InitPool ==
    /\ mode = "pool"
    /\ poolN \in 0..MaxChunks
    /\ poolPc = "start"
    /\ pool = <<>>
    /\ poolSem = 0
    /\ poolCallerDone = FALSE
    /\ poolErr = FALSE
    /\ ParseIdle /\ FilterIdle /\ ChunkIdle /\ MergeIdle /\ DispatchIdle
    /\ ChunkedIdle /\ ResponseIdle /\ FirstIdle

PoolFrame ==
    UNCHANGED <<mode, parseVars, filterVars, chunkVars, mergeVars, dispatchVars,
                chunkedVars, responseVars, firstVars>>

\* the caller's context is cancelled
PoolCallerCancel ==
    /\ mode = "pool" /\ poolPc \in {"start", "fanout"}
    /\ ~poolCallerDone
    /\ poolCallerDone' = TRUE
    /\ UNCHANGED <<poolN, poolPc, pool, poolSem, poolErr>>
    /\ PoolFrame

\* len(chunks) == 0: reviewChunked returns at once
PoolNoChunks ==
    /\ mode = "pool" /\ poolPc = "start"
    /\ poolN = 0
    /\ poolPc' = "returned"
    /\ UNCHANGED <<poolN, pool, poolSem, poolCallerDone, poolErr>>
    /\ PoolFrame

\* sem := semaphore.NewWeighted(MaxConcurrentChunks); g.Go(...) per chunk
PoolFanOut ==
    /\ mode = "pool" /\ poolPc = "start"
    /\ poolN > 0
    /\ pool' = [q \in TaskPositions |-> IF q = Waiting THEN poolN ELSE 0]
    /\ poolPc' = "fanout"
    /\ UNCHANGED <<poolN, poolSem, poolCallerDone, poolErr>>
    /\ PoolFrame

\* sem.Acquire(gctx, 1) returns nil; attempt := 0 and the first call
PoolAcquire ==
    /\ mode = "pool" /\ poolPc = "fanout"
    /\ pool[Waiting] > 0
    /\ ~PoolCtxDone
    /\ poolSem < MaxConcurrentChunks
    /\ poolSem' = poolSem + 1
    /\ pool' = Move(pool, Waiting, InCall(0))
    /\ UNCHANGED <<poolN, poolPc, poolCallerDone, poolErr>>
    /\ PoolFrame

\* sem.Acquire(gctx, 1) returns gctx.Err(); the task returns it, no slot
\* was taken and none is released
PoolAcquireCancelled ==
    /\ mode = "pool" /\ poolPc = "fanout"
    /\ pool[Waiting] > 0
    /\ PoolCtxDone
    /\ pool' = Move(pool, Waiting, ReturnedCtxErr)
    /\ poolErr' = TRUE
    /\ UNCHANGED <<poolN, poolPc, poolSem, poolCallerDone>>
    /\ PoolFrame

\* the dispatch succeeds at attempt a: the task returns nil and the
\* deferred sem.Release(1) runs
PoolCallOk(a) ==
    /\ mode = "pool" /\ poolPc = "fanout"
    /\ pool[InCall(a)] > 0
    /\ poolSem' = poolSem - 1
    /\ pool' = Move(pool, InCall(a), ReturnedOk)
    /\ UNCHANGED <<poolN, poolPc, poolCallerDone, poolErr>>
    /\ PoolFrame

\* fn fails with a retryable error and attempt < MaxRetries: the select
PoolCallTransient(a) ==
    /\ mode = "pool" /\ poolPc = "fanout"
    /\ a < MaxRetries
    /\ pool[InCall(a)] > 0
    /\ pool' = Move(pool, InCall(a), InBackoff(a))
    /\ UNCHANGED <<poolN, poolPc, poolSem, poolCallerDone, poolErr>>
    /\ PoolFrame

\* the dispatch fails at attempt a and the error path forgets the slot
PoolCallFailsKeepsSlot(a) ==
    /\ mode = "pool" /\ poolPc = "fanout"
    /\ pool[InCall(a)] > 0
    /\ pool' = Move(pool, InCall(a), ReturnedErr)
    /\ poolErr' = TRUE
    /\ UNCHANGED <<poolN, poolPc, poolSem, poolCallerDone>>
    /\ PoolFrame

\* the dispatch fails at attempt a: fn fails with an error that is not
\* retryable, or with a retryable one at attempt = MaxRetries ("max retries
\* exceeded"), or the message has no text or does not parse; the task
\* returns the error and the deferred sem.Release(1) runs
PoolCallFails(a) ==
    /\ mode = "pool" /\ poolPc = "fanout"
    /\ pool[InCall(a)] > 0
    /\ poolSem' = poolSem - 1
    /\ pool' = Move(pool, InCall(a), ReturnedErr)
    /\ poolErr' = TRUE
    /\ UNCHANGED <<poolN, poolPc, poolCallerDone>>
    /\ PoolFrame

\* case <-time.After(delay): attempt++ and the next call
PoolBackoffElapsed(a) ==
    /\ mode = "pool" /\ poolPc = "fanout"
    /\ a < MaxRetries
    /\ pool[InBackoff(a)] > 0
    /\ ~PoolCtxDone
    /\ pool' = Move(pool, InBackoff(a), InCall(a + 1))
    /\ UNCHANGED <<poolN, poolPc, poolSem, poolCallerDone, poolErr>>
    /\ PoolFrame

\* case <-ctx.Done(): gctx is cancelled or the deadline of the dispatch
\* has passed; the task returns the error and the deferred sem.Release(1)
\* runs
PoolBackoffCtxDone(a) ==
    /\ mode = "pool" /\ poolPc = "fanout"
    /\ a < MaxRetries
    /\ pool[InBackoff(a)] > 0
    /\ poolSem' = poolSem - 1
    /\ pool' = Move(pool, InBackoff(a), ReturnedErr)
    /\ poolErr' = TRUE
    /\ UNCHANGED <<poolN, poolPc, poolCallerDone>>
    /\ PoolFrame

\* g.Wait() returns: every task has returned
PoolWaitReturns ==
    /\ mode = "pool" /\ poolPc = "fanout"
    /\ CountAt(pool, HasReturned) = poolN
    /\ poolPc' = "returned"
    /\ UNCHANGED <<poolN, pool, poolSem, poolCallerDone, poolErr>>
    /\ PoolFrame

PoolTaskStep ==
    \/ PoolAcquire \/ PoolAcquireCancelled
    \/ \E a \in 0..MaxRetries :
          \/ PoolCallOk(a) \/ PoolCallTransient(a) \/ PoolCallFails(a)
          \/ PoolBackoffElapsed(a) \/ PoolBackoffCtxDone(a)
PoolCallerStep == PoolNoChunks \/ PoolFanOut \/ PoolWaitReturns

NextPool == PoolCallerCancel \/ PoolCallerStep \/ PoolTaskStep

SpecPool == InitPool /\ [][NextPool]_vars

PoolReturned == mode = "pool" /\ poolPc = "returned"

\* what a task at a position has left to do at most: a call may end in a
\* retry wait, a wait in the next call, up to attempt = MaxRetries
StepsLeft(q) ==
    CASE q.at = "acquire" -> 2 * MaxRetries + 3
      [] q.at = "call" -> 2 * (MaxRetries - q.attempt) + 2
      [] q.at = "backoff" -> 2 * (MaxRetries - q.attempt) + 1
      [] OTHER -> 0
RECURSIVE SumStepsLeft(_, _)
SumStepsLeft(b, S) ==
    IF S = {} THEN 0
    ELSE LET q == CHOOSE q \in S : TRUE
         IN  b[q] * StepsLeft(q) + SumStepsLeft(b, S \ {q})
\* the steps reviewChunked, its tasks and the caller's cancellation have
\* left at most
PoolWorkLeft(pc, n, b, cancelled) ==
    (IF pc = "start" THEN n * StepsLeft(Waiting) + 2
     ELSE IF pc = "fanout" THEN SumStepsLeft(b, TaskPositions) + 1
     ELSE 0)
      + (IF pc # "returned" /\ ~cancelled THEN 1 ELSE 0)

\* C36: every engine call returning, reviewChunked terminates for any
\* number of chunks: every step of a task or of the caller lessens the
\* work left (the attempts of a dispatch are bounded), and until
\* reviewChunked has returned a step is possible; a task that finds no
\* free slot waits for a task that holds one and can return; a slot is held
\* exactly by the tasks between sem.Acquire and their return, whichever
\* way they return, and no slot is held when reviewChunked returns.
C36_ChunkedTerminatesSlotsFree ==
    /\ [][mode = "pool" =>
            PoolWorkLeft(poolPc', poolN', pool', poolCallerDone')
                < PoolWorkLeft(poolPc, poolN, pool, poolCallerDone)]_vars
    /\ []((mode = "pool" /\ poolPc # "returned") =>
            ENABLED (PoolCallerStep \/ PoolTaskStep))
    /\ []((mode = "pool" /\ poolPc = "fanout") =>
            /\ poolSem = CountAt(pool, HoldsSlot)
            /\ poolSem <= MaxConcurrentChunks
            /\ CountAt(pool, TaskPositions) = poolN
            /\ (pool[Waiting] > 0 /\ ~ENABLED PoolAcquire /\ ~ENABLED PoolAcquireCancelled)
                 => /\ poolSem = MaxConcurrentChunks
                    /\ ENABLED (\E a \in 0..MaxRetries : PoolCallOk(a) \/ PoolCallFails(a)
                                                          \/ PoolBackoffCtxDone(a)))
    /\ [](PoolReturned =>
            /\ poolSem = 0
            /\ poolN > 0 => CountAt(pool, HasReturned) = poolN)

\* more chunks than slots; reviewChunked has returned after tasks returned
\* in each of the three ways, one of them after its last retry
C36_Witness ==
    /\ PoolReturned
    /\ poolN > MaxConcurrentChunks
    /\ pool[ReturnedOk] > 0 /\ pool[ReturnedErr] > 0 /\ pool[ReturnedCtxErr] > 0
    /\ poolSem = 0

\* every slot is taken, one of them by a task in its last attempt, and a
\* task waits for a slot
AllSlotsTakenTaskWaits ==
    /\ mode = "pool" /\ poolPc = "fanout"
    /\ poolSem = MaxConcurrentChunks
    /\ pool[Waiting] > 0
    /\ pool[InCall(MaxRetries)] > 0
    /\ ~PoolCtxDone

(***************************************************************************)
(* ParseResponse: cleanResponse, json.Unmarshal, validateResponse.         *)
(*                                                                         *)
(* A response text is a sequence of tokens, each standing for a piece of   *)
(* text the searches of cleanResponse can tell apart:                      *)
(*   w        a word of prose (no brace, no backtick, not JSON)            *)
(*   { }      a brace                                                      *)
(*   fence    three backticks      jsonfence  three backticks and json     *)
(*   sp nl    one space, one newline                                       *)
(*   summary comments other   the first key of an object, with its value  *)
(*   members  the remaining members of an object; what json.Unmarshal      *)
(*            makes of them is the token's value v                         *)
(* A JSON object is "{", optional white space, its first key, its other    *)
(* members, optionally a string value that holds a fenced block (a         *)
(* suggestion in a comment body), "}".  The braces of nested values lie    *)
(* between the two braces of the object and are never the first "{" or the *)
(* last "}" of a text, so they are left inside the members token.          *)
(***************************************************************************)
MaxProse == 2
MaxRespComments == 2

NoMembers == [approval |-> "", comments |-> <<>>, syntax |-> "none"]
Tok(t) == [t |-> t, v |-> NoMembers]
MembersTok(m) == [t |-> "members", v |-> m]

ProseTokens == {Tok("w"), Tok("{"), Tok("}"), Tok("fence")}
FirstKeys == {"summary", "comments", "other"}
Leads == {"", "sp", "nl"}
Fences == {"none", "plain", "json"}

\* type ClaudeComment, type ClaudeResponse
Severities == {"critical", "high", "medium", "low"}
UnknownSeverity == "urgent"
ClaudeComment(p, n, b, sv) == [path |-> p, line |-> n, body |-> b, severity |-> sv]
RespComments ==
    {ClaudeComment(p, n, b, sv) :
        p \in {"", "a"}, n \in {-1, 0, 1}, b \in {"", "x"},
        sv \in {"", "low", UnknownSeverity}}
RespApprovals == Approvals \cup {MissingApproval, UnknownApproval}
Payloads ==
    {[approval |-> a, comments |-> cs, syntax |-> "ok"] :
        a \in RespApprovals, cs \in SeqsUpTo(RespComments, MaxRespComments)}
\* members json.Unmarshal rejects (a syntax error, a line that is no integer)
BadJson == [approval |-> "approve", comments |-> <<>>, syntax |-> "bad"]
\* the members the texts with prose and fences carry
GoodMembers ==
    [approval |-> MissingApproval,
     comments |-> <<ClaudeComment("a", 1, "x", "")>>, syntax |-> "ok"]
BadApprovalMembers ==
    [approval |-> UnknownApproval, comments |-> <<>>, syntax |-> "ok"]

Object(l, k, sf, m) == [lead |-> l, first |-> k, strFence |-> sf, members |-> m]
StrFence(sf) ==
    CASE sf = "plain" -> <<Tok("fence"), Tok("w"), Tok("fence")>>
      [] sf = "json" -> <<Tok("jsonfence"), Tok("w"), Tok("fence")>>
      [] OTHER -> <<>>
\* the text of an object
Render(o) ==
    <<Tok("{")>> \o (IF o.lead = "" THEN <<>> ELSE <<Tok(o.lead)>>)
      \o <<Tok(o.first), MembersTok(o.members)>> \o StrFence(o.strFence)
      \o <<Tok("}")>>
FenceOpen(f) ==
    CASE f = "plain" -> <<Tok("fence"), Tok("nl")>>
      [] f = "json" -> <<Tok("jsonfence"), Tok("nl")>>
      [] OTHER -> <<>>
FenceClose(f) == IF f = "none" THEN <<>> ELSE <<Tok("nl"), Tok("fence")>>
\* prose, the object bare or in a fence, prose; padded: white space around
ResponseText(pre, f, o, post, padded) ==
    (IF padded THEN <<Tok("nl")>> ELSE <<>>)
      \o pre \o FenceOpen(f) \o Render(o) \o FenceClose(f) \o post
      \o (IF padded THEN <<Tok("nl")>> ELSE <<>>)

\* strings.TrimSpace
IsSpace(tok) == tok.t \in {"sp", "nl"}
RECURSIVE TrimLeft(_)
TrimLeft(ts) ==
    IF ts # <<>> /\ IsSpace(Head(ts)) THEN TrimLeft(Tail(ts)) ELSE ts
RECURSIVE TrimRight(_)
TrimRight(ts) ==
    IF ts # <<>> /\ IsSpace(ts[Len(ts)])
    THEN TrimRight(SubSeq(ts, 1, Len(ts) - 1)) ELSE ts
TrimSpace(ts) == TrimRight(TrimLeft(ts))

\* strings.Index and strings.LastIndex over positions 1..Len: 0 is "not found"
MinOf(S) == CHOOSE x \in S : \A y \in S : x <= y
First(S) == IF S = {} THEN 0 ELSE MinOf(S)
Last(S) == IF S = {} THEN 0 ELSE MaxOf(S)
\* strings.Index of the json fence
IndexJsonFence(ts) == First({i \in 1..Len(ts) : ts[i].t = "jsonfence"})
\* strings.Index of the plain fence: the text of a json fence begins with
\* a plain fence too
IndexFence(ts) == First({i \in 1..Len(ts) : ts[i].t \in {"fence", "jsonfence"}})
\* strings.Index(ts, "{"), strings.LastIndex(ts, "}")
IndexBrace(ts) == First({i \in 1..Len(ts) : ts[i].t = "{"})
LastIndexBrace(ts) == Last({i \in 1..Len(ts) : ts[i].t = "}"})
\* the markers {"summary", { "summary", {"comments", { "comments"
Markers ==
    <<[key |-> "summary", spaced |-> FALSE], [key |-> "summary", spaced |-> TRUE],
      [key |-> "comments", spaced |-> FALSE], [key |-> "comments", spaced |-> TRUE]>>
IndexMarker(ts, m) ==
    First({i \in 1..Len(ts) :
             /\ ts[i].t = "{"
             /\ IF m.spaced
                  THEN i + 2 <= Len(ts) /\ ts[i + 1].t = "sp" /\ ts[i + 2].t = m.key
                  ELSE i + 1 <= Len(ts) /\ ts[i + 1].t = m.key})

\* inner[:endIdx] up to the next fence, or all of inner
FenceInner(inner) ==
    IF IndexFence(inner) # 0
    THEN TrimSpace(SubSeq(inner, 1, IndexFence(inner) - 1))
    ELSE TrimSpace(inner)

\* the fall back: the outermost { ... }
OutermostBraces(ts) ==
    IF IndexBrace(ts) # 0 /\ LastIndexBrace(ts) > IndexBrace(ts)
    THEN TrimSpace(SubSeq(ts, IndexBrace(ts), LastIndexBrace(ts)))
    ELSE TrimSpace(ts)

\* the loop over the markers, from marker k on
RECURSIVE MarkerLoop(_, _)
MarkerLoop(ts, k) ==
    IF k > Len(Markers) THEN OutermostBraces(ts)
    ELSE IF IndexMarker(ts, Markers[k]) # 0
              /\ LastIndexBrace(ts) > IndexMarker(ts, Markers[k])
      THEN TrimSpace(SubSeq(ts, IndexMarker(ts, Markers[k]), LastIndexBrace(ts)))
      ELSE MarkerLoop(ts, k + 1)

\* func cleanResponse(response string) string
cleanResponse(text) ==
    LET r == TrimSpace(text)
    IN  IF IndexJsonFence(r) # 0
          THEN FenceInner(SubSeq(r, IndexJsonFence(r) + 1, Len(r)))
          ELSE IF IndexFence(r) # 0
                    /\ (IndexBrace(r) = 0 \/ IndexFence(r) < IndexBrace(r))
            THEN FenceInner(SubSeq(r, IndexFence(r) + 1, Len(r)))
            ELSE MarkerLoop(r, 1)

\* json.Unmarshal([]byte(cleaned), &result): the text must be one JSON
\* value and nothing else; "{}" gives the zero ClaudeResponse
IsObjectText(ts) ==
    /\ Len(ts) >= 4
    /\ ts[1].t = "{" /\ ts[Len(ts)].t = "}"
    /\ LET k == IF IsSpace(ts[2]) THEN 3 ELSE 2
       IN  /\ Len(ts) >= k + 2
           /\ ts[k].t \in FirstKeys
           /\ ts[k + 1].t = "members"
           /\ SubSeq(ts, k + 2, Len(ts) - 1) \in {StrFence(sf) : sf \in Fences}
MembersOf(ts) == ts[IF IsSpace(ts[2]) THEN 4 ELSE 3].v
Unmarshal(ts) ==
    IF ts = <<Tok("{"), Tok("}")>>
      THEN [err |-> FALSE, value |-> [approval |-> "", comments |-> <<>>]]
    ELSE IF IsObjectText(ts) /\ MembersOf(ts).syntax = "ok"
      THEN [err |-> FALSE,
            value |-> [approval |-> MembersOf(ts).approval,
                       comments |-> MembersOf(ts).comments]]
      ELSE [err |-> TRUE, value |-> [approval |-> "", comments |-> <<>>]]

\* the loop of validateResponse from comment i on, with invalid comments
\* dropped instead of rejected
RECURSIVE ValidateCommentsSkipsInvalid(_, _)
ValidateCommentsSkipsInvalid(cs, i) ==
    IF i > Len(cs) THEN [err |-> "none", comments |-> <<>>]
    ELSE IF cs[i].path = "" \/ cs[i].line <= 0 \/ cs[i].body = ""
              \/ cs[i].severity \notin Severities \cup {""}
      THEN ValidateCommentsSkipsInvalid(cs, i + 1)
      ELSE LET rest == ValidateCommentsSkipsInvalid(cs, i + 1)
               c == IF cs[i].severity = ""
                      THEN [cs[i] EXCEPT !.severity = "medium"] ELSE cs[i]
           IN  [err |-> rest.err, comments |-> <<c>> \o rest.comments]

\* the loop of validateResponse from comment i on: the first error, or the
\* comments with their severity defaulted
RECURSIVE ValidateComments(_, _)
ValidateComments(cs, i) ==
    IF i > Len(cs) THEN [err |-> "none", comments |-> <<>>]
    ELSE IF cs[i].path = "" THEN [err |-> "path", comments |-> <<>>]
    ELSE IF cs[i].line <= 0 THEN [err |-> "line", comments |-> <<>>]
    ELSE IF cs[i].body = "" THEN [err |-> "body", comments |-> <<>>]
    ELSE IF cs[i].severity \notin Severities \cup {""}
      THEN [err |-> "severity", comments |-> <<>>]
      ELSE LET rest == ValidateComments(cs, i + 1)
               c == IF cs[i].severity = ""
                      THEN [cs[i] EXCEPT !.severity = "medium"] ELSE cs[i]
           IN  [err |-> rest.err,
                comments |-> IF rest.err = "none" THEN <<c>> \o rest.comments
                             ELSE <<>>]

\* validateResponse that leaves an empty approval as it is
validateResponseNoDefault(resp) ==
    IF resp.approval \notin Approvals \cup {""}
      THEN [err |-> "approval", resp |-> resp]
      ELSE LET v == ValidateComments(resp.comments, 1)
           IN  [err |-> v.err,
                resp |-> [approval |-> resp.approval, comments |-> v.comments]]

\* func validateResponse(resp *ClaudeResponse) error, with resp as it is
\* left when the error is nil
validateResponse(resp) ==
    IF resp.approval \notin Approvals \cup {""}
      THEN [err |-> "approval", resp |-> resp]
      ELSE LET v == ValidateComments(resp.comments, 1)
           IN  [err |-> v.err,
                resp |-> [approval |-> IF resp.approval = "" THEN "comment"
                                       ELSE resp.approval,
                          comments |-> v.comments]]

\* func ParseResponse(response string) (*ClaudeResponse, error)
ParseResponseText(text) ==
    LET u == Unmarshal(cleanResponse(text))
    IN  IF u.err THEN [NoParsed EXCEPT !.err = "json"]
        ELSE IF validateResponse(u.value).err # "none"
          THEN [NoParsed EXCEPT !.err = validateResponse(u.value).err]
          ELSE [err |-> "none", hasResult |-> TRUE,
                resp |-> validateResponse(u.value).resp]

Prose == SeqsUpTo(ProseTokens, MaxProse)

\* a response is [pre, fence, obj, post, padded]: either any prose and
\* fence around an object with one of two sets of members, or a bare
\* object with any members
InitResponse ==
    /\ mode = "response"
    /\ \/ \E pre \in Prose, post \in Prose, f \in Fences, l \in Leads,
             k \in FirstKeys, sf \in Fences, padded \in BOOLEAN,
             m \in {GoodMembers, BadApprovalMembers} :
             response = [pre |-> pre, fence |-> f, obj |-> Object(l, k, sf, m),
                         post |-> post, padded |-> padded]
       \/ \E m \in Payloads \cup {BadJson} :
             response = [pre |-> <<>>, fence |-> "none",
                         obj |-> Object("", "summary", "none", m),
                         post |-> <<>>, padded |-> FALSE]
    /\ rpc = "start"
    /\ cleaned = <<>>
    /\ parsed = NoParsed
    /\ ParseIdle /\ FilterIdle /\ ChunkIdle /\ MergeIdle /\ DispatchIdle
    /\ ChunkedIdle /\ FirstIdle /\ PoolIdle

TextOf(r) == ResponseText(r.pre, r.fence, r.obj, r.post, r.padded)

\* parsed, err := ParseResponse(text)
ParseResponseCall ==
    /\ mode = "response" /\ rpc = "start"
    /\ cleaned' = cleanResponse(TextOf(response))
    /\ parsed' = ParseResponseText(TextOf(response))
    /\ rpc' = "done"
    /\ UNCHANGED <<mode, response>>
    /\ UNCHANGED <<parseVars, filterVars, chunkVars, mergeVars, dispatchVars,
                   chunkedVars, firstVars, poolVars>>

NextResponse == ParseResponseCall

SpecResponse == InitResponse /\ [][NextResponse]_vars

ResponseDone == mode = "response" /\ rpc = "done"

\* C24: whenever ParseResponse succeeds, the returned response is
\* normalised: its approval is one of approve, request_changes, comment (a
\* missing one has become comment), and every comment has a non-empty path,
\* a line above 0, a non-empty body and a severity among critical, high,
\* medium, low (a missing one has become medium).
C24_SuccessIsNormalised ==
    (ResponseDone /\ parsed.err = "none") =>
        /\ parsed.hasResult
        /\ parsed.resp.approval \in Approvals
        /\ \A i \in 1..Len(parsed.resp.comments) :
             LET c == parsed.resp.comments[i]
             IN  c.path # "" /\ c.line > 0 /\ c.body # "" /\ c.severity \in Severities
        /\ LET in == Unmarshal(cleaned).value
           IN  /\ in.approval = "" => parsed.resp.approval = "comment"
               /\ in.approval # "" => parsed.resp.approval = in.approval
               /\ Len(parsed.resp.comments) = Len(in.comments)
               /\ \A i \in 1..Len(in.comments) :
                    parsed.resp.comments[i] =
                        IF in.comments[i].severity = ""
                        THEN [in.comments[i] EXCEPT !.severity = "medium"]
                        ELSE in.comments[i]

\* a response without approval and with a comment without severity parsed
C24_Witness ==
    /\ ResponseDone
    /\ response.obj.members.approval = ""
    /\ Len(response.obj.members.comments) = 2
    /\ response.obj.members.comments[1].severity = ""
    /\ response.obj.members.comments[2].severity = "low"
    /\ parsed.err = "none"
    /\ parsed.resp.approval = "comment"
    /\ parsed.resp.comments[1].severity = "medium"
    /\ parsed.resp.comments[2].severity = "low"

\* prose that holds no JSON object of its own: no "{" directly before "}"
NoObjectIn(prose) ==
    \A i \in 1..(Len(prose) - 1) : ~(prose[i].t = "{" /\ prose[i + 1].t = "}")

InvalidComment(c) ==
    \/ c.path = "" \/ c.line <= 0 \/ c.body = ""
    \/ c.severity \notin Severities \cup {""}
\* what the response carries is not parseable JSON, or has an approval or a
\* severity outside the allowed values, or a comment without path, line or
\* body
InvalidMembers(m) ==
    \/ m.syntax # "ok"
    \/ m.approval \notin Approvals \cup {""}
    \/ \E i \in 1..Len(m.comments) : InvalidComment(m.comments[i])

\* C25: ParseResponse returns an error, and no response, whenever the text
\* (the one JSON object a response carries, bare or fenced, in prose that
\* holds no object of its own) is not parseable JSON, the approval is outside the allowed values, a
\* severity is outside the allowed values, or any comment has an empty
\* path, a line <= 0 or an empty body: one invalid comment rejects the
\* whole response.
C25_InvalidIsRejected ==
    (/\ ResponseDone
     /\ NoObjectIn(response.pre) /\ NoObjectIn(response.post)
     /\ InvalidMembers(response.obj.members)) =>
        /\ parsed.err # "none"
        /\ ~parsed.hasResult
        /\ parsed.resp = NoParsed.resp

\* a response whose first comment is valid and whose second is not was
\* rejected
C25_Witness ==
    /\ ResponseDone
    /\ response.obj.members.syntax = "ok"
    /\ response.obj.members.approval = "approve"
    /\ Len(response.obj.members.comments) = 2
    /\ ~InvalidComment(response.obj.members.comments[1])
    /\ InvalidComment(response.obj.members.comments[2])
    /\ parsed.err # "none"
    /\ ~parsed.hasResult

\* C26: for a response made of optional prose, then one JSON object, bare
\* or wrapped in a ``` or ```json fence, then optional trailing prose,
\* cleanResponse returns exactly the text of that JSON object; a response
\* that already is a bare JSON object is returned unchanged, also when its
\* string values contain ``` fences.
C26_CleanReturnsTheObject ==
    (ResponseDone /\ NoObjectIn(response.pre) /\ NoObjectIn(response.post)) =>
        cleaned = Render(response.obj)

\* the same for prose without brace or fence, an object in a fence whose
\* strings hold no fence, and a bare object whose strings hold no json
\* fence
PlainProse(prose) == \A i \in 1..Len(prose) : prose[i].t = "w"
CleanReturnsTheObjectInPlainProse ==
    (/\ ResponseDone
     /\ PlainProse(response.pre) /\ PlainProse(response.post)
     /\ response.fence # "none" => response.obj.strFence = "none"
     /\ response.fence = "none" => response.obj.strFence # "json") =>
        cleaned = Render(response.obj)

\* a bare JSON object is returned unchanged unless a string value holds a
\* json fence
BareObjectUnchanged ==
    (/\ ResponseDone
     /\ response.pre = <<>> /\ response.post = <<>> /\ response.fence = "none"
     /\ response.obj.strFence # "json") =>
        cleaned = TrimSpace(TextOf(response))

(***************************************************************************)
(* reviewFirst, from the review of the diff to the posting of the comments. *)
(* The diff is reviewed in one call, or, when len(diff) > ChunkThreshold,  *)
(* chunk by chunk; the results of the chunks are taken here in index       *)
(* order, the order MergeChunkResponses lists them in.  The byte sizes     *)
(* that decide the packing are not part of a line, so every packing of     *)
(* the file segments into chunks is considered, except a single chunk of   *)
(* several files (MaxChunkSize < ChunkThreshold).                          *)
(***************************************************************************)
\* func ParseDiffLines(diff string) DiffLineMap: the range loop from line i
\* on, with the locals currentFile (f), currentLine (n), inHunk (h), result
RECURSIVE ParseLoop(_, _, _, _, _, _)
ParseLoop(d, i, f, n, h, res) ==
    IF i > Len(d) THEN res
    ELSE IF IsPlusB(d[i])
      THEN ParseLoop(d, i + 1, d[i].path, n, FALSE, EnsureFile(res, d[i].path))
    ELSE IF IsDevNull(d[i])
      THEN ParseLoop(d, i + 1, "", n, FALSE, res)
    ELSE IF MatchesHunkHeader(d[i])
      THEN IF f = "" THEN ParseLoop(d, i + 1, f, n, h, res)
           ELSE ParseLoop(d, i + 1, f, d[i].start, TRUE, res)
    ELSE IF ~h \/ f = ""
      THEN ParseLoop(d, i + 1, f, n, h, res)
    ELSE IF HasPrefixMinus(d[i])
      THEN ParseLoop(d, i + 1, f, n, h, res)
    ELSE IF HasPrefixPlus(d[i]) \/ IsContext(d[i])
      THEN ParseLoop(d, i + 1, f, n + 1, h, MarkValid(res, f, n))
    ELSE IF HasPrefixBackslash(d[i])
      THEN ParseLoop(d, i + 1, f, n, h, res)
    ELSE IF IsGitMarker(d[i])
      THEN ParseLoop(d, i + 1, f, n, FALSE, res)
      ELSE ParseLoop(d, i + 1, f, n, h, res)

ParseDiffLines(d) == ParseLoop(d, 1, "", 0, FALSE, EmptyMap)

\* the operator computes what the loop of SpecParse leaves in result
ParseLoopMatchesActions == ParseDone => result = ParseDiffLines(diff)

\* func FilterValidComments: the comments it returns
FilterValidComments(cs, m) ==
    SelectSeq(cs, LAMBDA c : IsValidCommentLine(m, c.path, c.line))

\* the operator computes what the loop of SpecFilter leaves in valid
FilterMatchesActions ==
    FilterDone => valid = FilterValidComments(comments, diffLines)

\* func ToGitHubReview: reviewReq.Comments
ReviewComment(c) == [Path |-> c.path, Line |-> c.line, Side |-> "RIGHT", Body |-> c.body]
ToGitHubReview(cs) == [i \in 1..Len(cs) |-> ReviewComment(cs[i])]

FirstLines ==
    {Line("Git", p, 0) : p \in Paths} \cup {Line("PlusB", p, 0) : p \in Paths}
    \cup {Line("Hunk", "", 1), Line("Add", "", 0), Line("Del", "", 0)}
\* the comments of a response ParseResponse accepts
MaxCallComments == 2
EngineComments ==
    SeqsUpTo({Comment(p, n, "x") : p \in Paths, n \in 1..2}, MaxCallComments)

\* the diffs of the chunks when the chunks end after the files in ends
ChunkDiffs(fs, ends) ==
    LET es == SortedSeq(ends)
    IN  [k \in 1..Len(es) |->
            JoinContents(SubSeq(fs, IF k = 1 THEN 1 ELSE es[k - 1] + 1, es[k]))]
Packings(fs) ==
    IF Len(fs) = 0 THEN {<<>>}
    ELSE {ChunkDiffs(fs, cuts \cup {Len(fs)}) :
            cuts \in {c \in SUBSET (1..(Len(fs) - 1)) : Len(fs) > 1 => c # {}}}

InitFirst ==
    /\ mode = "first"
    /\ diff \in NonEmptySeqsUpTo(FirstLines, MaxDiffLines)
    /\ pos = 1 /\ currentFile = "" /\ currentLine = 0
    /\ inHunk = FALSE /\ result = EmptyMap /\ annotated = <<>>
    /\ large \in BOOLEAN
    /\ fpc = "start"
    /\ fchunks = <<>>
    /\ fk = 1
    /\ fcomments = <<>>
    /\ posted = <<>>
    /\ FilterIdle /\ ChunkIdle /\ MergeIdle /\ DispatchIdle /\ ChunkedIdle
    /\ ResponseIdle /\ PoolIdle

FirstFrame ==
    /\ UNCHANGED <<mode, parseVars, large>>
    /\ UNCHANGED <<filterVars, chunkVars, mergeVars, dispatchVars, chunkedVars,
                   responseVars, poolVars>>

\* the single call: callClaudeWithContext and ParseResponse succeed
FirstSingle ==
    /\ mode = "first" /\ fpc = "start" /\ ~large
    /\ \E cs \in EngineComments : fcomments' = cs
    /\ fpc' = "parsed"
    /\ UNCHANGED <<fchunks, fk, posted>>
    /\ FirstFrame

\* reviewChunked: chunks := ChunkDiff(diff, MaxChunkSize); with no chunk it
\* returns a response without comments
FirstChunked ==
    /\ mode = "first" /\ fpc = "start" /\ large
    /\ fchunks' \in Packings(SplitDiffByFile(diff))
    /\ fpc' = IF fchunks' = <<>> THEN "parsed" ELSE "chunks"
    /\ UNCHANGED <<fk, fcomments, posted>>
    /\ FirstFrame

\* the result of chunk fk without the filter of reviewChunkWithContext:
\* every comment of the response is kept
FirstChunkResultUnfiltered ==
    /\ mode = "first" /\ fpc = "chunks"
    /\ \E cs \in EngineComments : fcomments' = fcomments \o cs
    /\ fk' = fk + 1
    /\ fpc' = IF fk = Len(fchunks) THEN "parsed" ELSE "chunks"
    /\ UNCHANGED <<fchunks, posted>>
    /\ FirstFrame

\* the result of chunk fk: reviewChunkWithContext keeps the comments that
\* are valid in the line map of the chunk's diff
FirstChunkResult ==
    /\ mode = "first" /\ fpc = "chunks"
    /\ \E cs \in EngineComments :
         fcomments' =
             fcomments \o FilterValidComments(cs, ParseDiffLines(fchunks[fk]))
    /\ fk' = fk + 1
    /\ fpc' = IF fk = Len(fchunks) THEN "parsed" ELSE "chunks"
    /\ UNCHANGED <<fchunks, posted>>
    /\ FirstFrame

\* the engine call or ParseResponse fails: reviewFirst returns the error
FirstFails ==
    /\ mode = "first" /\ fpc \in {"start", "chunks"}
    /\ fpc' = "failed"
    /\ UNCHANGED <<fchunks, fk, fcomments, posted>>
    /\ FirstFrame

\* diffLines := ParseDiffLines(diff); FilterValidComments; ToGitHubReview;
\* CreateReview
FirstFilterAndPost ==
    /\ mode = "first" /\ fpc = "parsed"
    /\ fcomments' = FilterValidComments(fcomments, ParseDiffLines(diff))
    /\ posted' = ToGitHubReview(fcomments')
    /\ fpc' = "posted"
    /\ UNCHANGED <<fchunks, fk>>
    /\ FirstFrame

NextFirst ==
    FirstSingle \/ FirstChunked \/ FirstChunkResult \/ FirstFails
      \/ FirstFilterAndPost

SpecFirst == InitFirst /\ [][NextFirst]_vars

FirstPosted == mode = "first" /\ fpc = "posted"

\* C27: every comment reviewFirst hands to the posting step, on the
\* single-call path and on the chunked path alike, is valid in the line
\* map of the whole diff, so that no comment is ever posted on a deleted
\* line or on a line outside the hunks: it sits on an added or context
\* line of a hunk of its file's section.
C27_PostedOnHunkLinesOnly ==
    FirstPosted =>
        \A i \in 1..Len(posted) :
            /\ IsValidCommentLine(ParseDiffLines(diff), posted[i].Path, posted[i].Line)
            /\ <<posted[i].Path, posted[i].Line>> \in SectionLines(diff)

\* the first half alone: what is posted is valid in the line map of the
\* whole diff, on both paths
PostedValidInWholeDiffMap ==
    FirstPosted =>
        \A i \in 1..Len(posted) :
            IsValidCommentLine(ParseDiffLines(diff), posted[i].Path, posted[i].Line)

\* a comment a chunk kept is dropped by the filter over the whole diff, or
\* kept by it, on the chunked path
ChunkedPathPosts ==
    FirstPosted /\ large /\ Len(fchunks) > 1 /\ Len(posted) > 0

\* the valid lines of m1 are valid lines of m2
ValidLinesWithin(m1, m2) ==
    \A p \in DOMAIN m1 : \A n \in m1[p] : IsValidCommentLine(m2, p, n)

\* C38: for every chunk of the diff, each (path, line) that is valid in the
\* line map of the chunk's diff is valid in the line map of the whole
\* diff; hence the filter over the whole diff drops no comment that the
\* filters of the chunks have kept.
C38_ChunkMapWithinWholeMap ==
    /\ []((mode = "first" /\ large) =>
            \A k \in 1..Len(fchunks) :
                ValidLinesWithin(ParseDiffLines(fchunks[k]), ParseDiffLines(diff)))
    /\ [][(mode = "first" /\ large /\ fpc = "parsed" /\ fpc' = "posted") =>
            /\ fcomments' = fcomments
            /\ posted' = ToGitHubReview(fcomments)]_vars

\* two chunks, the first with a valid line; a comment on it was kept by the
\* chunk's filter and is posted
C38_Witness ==
    /\ FirstPosted /\ large
    /\ Len(fchunks) = 2
    /\ \E p \in DOMAIN ParseDiffLines(fchunks[1]) :
          /\ ParseDiffLines(fchunks[1])[p] # {}
          /\ \E i \in 1..Len(posted) :
                /\ posted[i].Path = p
                /\ posted[i].Line \in ParseDiffLines(fchunks[1])[p]

\* the converse does not hold: the whole diff's map has a line that the
\* map of no chunk has (a path kept across a "diff --git" line)
WholeMapBeyondChunkMaps ==
    /\ mode = "first" /\ large /\ Len(fchunks) > 1
    /\ \E p \in DOMAIN ParseDiffLines(diff) : \E n \in ParseDiffLines(diff)[p] :
          \A k \in 1..Len(fchunks) :
              ~IsValidCommentLine(ParseDiffLines(fchunks[k]), p, n)

====
